---- MODULE Spec2Model ----
(***************************************************************************)
(* State-machine model of the SPF_CabinWalk camera animation core:         *)
(* the plugin keybind handlers (SPF_CabinWalk.cpp), the AnimationController *)
(* (transition graph, pending-move queue, per-frame Update), the           *)
(* StandingAnimController (stance sub-state-machine) and the               *)
(* AnimationSequence clock.                                                *)
(*                                                                         *)
(* Units.  Lengths and angles are the source floats times 100 (0.35f is    *)
(* 35).  Times are the raw simulation-timestamp units of the source        *)
(* (HOLD_TIME_MS = 1000000).  A simulation timestamp grows without bound,  *)
(* so each last_simulation_time is stored as its age (now minus the stored *)
(* timestamp).  The stance controller's age is saturated at LagCap; the    *)
(* animation controller's age is tracked while a major sequence plays,     *)
(* the only time it is read (MoveTo overwrites it before every Start).     *)
(***************************************************************************)
EXTENDS Integers, Sequences, FiniteSets, TLC

\* ------------------------------------------------------------------------
\* Program constants
\* ------------------------------------------------------------------------
HOLD_TIME_MS == 1000000
CROUCH_DURATION == 1250000
TIPTOE_DURATION == 1100000
STEP_DURATION == 250000
BASE_TURN_DURATION == 100000
EXTRA_TURN_DURATION_PER_PI == 400000
CROUCH_DEPTH == 50
TIPTOE_HEIGHT == 17
CROUCH_DOWN_ANGLE == -70
STAND_UP_ANGLE == 30
TIPTOE_UP_ANGLE == 50
STAND_DOWN_ANGLE == -30
MAX_Z == 65
MIN_Z == -55
STEP_AMOUNT == 35
M_PI == 314
M_PI_2 == 157
SAFE_SPEED == 10

DRIVER_TO_PASSENGER_MS == 3000
PASSENGER_TO_DRIVER_MS == 3000
STANDING_TO_DRIVER_MS == 2000
STANDING_TO_SOFA_MS == 1500
SOFA_TO_STANDING_MS == 1800
DRIVER_TO_STANDING == 6000000
PASSENGER_TO_STANDING == 5000000
DRIVER_TO_PASSENGER_DURATION == 3500000
SOFA_SIT1_TO_LIE_DURATION == 5000000
SOFA_LIE_TO_SIT2_DURATION == 2500000
SOFA_SIT2_TO_SIT1_DURATION == 1200000
SOFA_LIE_TO_SIT1_DURATION == 2800000

\* ------------------------------------------------------------------------
\* Bounds of the model
\* ------------------------------------------------------------------------
\* A frame lasts k half hold times, k in 1..MaxFrameSteps.
MaxFrameSteps == 2

\* An age at or above every stance sequence duration and the hold time acts
\* like any larger one.
LagCap == CROUCH_DURATION

FrameStep == HOLD_TIME_MS \div 2
Deltas == {k * FrameStep : k \in 1..MaxFrameSteps}

\* ------------------------------------------------------------------------
\* CameraPosition, Stance
\* ------------------------------------------------------------------------
Driver == "Driver"
Passenger == "Passenger"
Standing == "Standing"
SofaSit1 == "SofaSit1"
SofaLie == "SofaLie"
SofaSit2 == "SofaSit2"
None == "None"

CameraPosition == {Driver, Passenger, Standing, SofaSit1, SofaLie, SofaSit2}
SofaPositions == {SofaSit1, SofaLie, SofaSit2}

St_Standing == "Standing"
St_Crouching == "Crouching"
St_Tiptoes == "Tiptoes"
St_InTransition == "InTransition"
St_Walking == "WalkingToFinalDestination"

Abs(n) == IF n < 0 THEN -n ELSE n
Min(a, b) == IF a < b THEN a ELSE b

\* ------------------------------------------------------------------------
\* Poses: x, y, z, yaw (rotation.x), pitch (rotation.y)
\* ------------------------------------------------------------------------
Pose(x, y, z, yaw, pitch) == [x |-> x, y |-> y, z |-> z, yaw |-> yaw, pitch |-> pitch]

ZeroPose == Pose(0, 0, 0, 0, 0)

\* The pose of the driver's seat as the game holds it before the plugin moves the camera.
DriverSeatPose == Pose(0, 0, 0, 0, 0)

\* LoadSettings defaults of settings.positions.*
SettingsPose(pos) ==
    CASE pos = Passenger -> Pose(95, 0, -3, 3, 3)
      [] pos = Standing  -> Pose(50, 20, 25, -17, -30)
      [] pos = SofaSit1  -> Pose(50, 0, 80, 0, 0)
      [] pos = SofaLie   -> Pose(-15, -25, 125, -165, 35)
      [] pos = SofaSit2  -> Pose(20, 0, 80, 0, 0)
      [] OTHER           -> ZeroPose

\* ------------------------------------------------------------------------
\* AnimationSequence
\* ------------------------------------------------------------------------
NullSeq ==
    [kind |-> "null", to |-> None, duration |-> 0, elapsed |-> 0,
     playing |-> FALSE, init |-> ZeroPose, final |-> ZeroPose]

\* A sequence as a factory returns it: the tracks are summarised by the pose
\* they evaluate to at progress 1.0 (a channel without keyframes keeps the
\* initial pose's component, AnimationSequence.cpp:59-90).
NewSeq(kind, to, duration, final) ==
    [kind |-> kind, to |-> to, duration |-> duration, elapsed |-> 0,
     playing |-> FALSE, init |-> ZeroPose, final |-> final]

\* AnimationSequence::Start
SeqStart(seq, initial_state) ==
    [seq EXCEPT !.init = initial_state, !.elapsed = 0, !.playing = TRUE]

SeqIsPlaying(seq) == seq.kind # "null" /\ seq.playing

\* Progress in percent; the division is done on milliseconds to stay in range.
ProgressPct(seq) ==
    IF seq.duration = 0 THEN 100
    ELSE ((seq.elapsed \div 1000) * 100) \div (seq.duration \div 1000)

\* Track::Evaluate between the first and the last keyframe.  Exact at
\* progress 0 and 1; in between the easing curves are taken as linear.
Lerp(a, b, pct) == a + ((b - a) * pct) \div 100

PoseAt(seq) ==
    LET p == ProgressPct(seq) IN
    IF seq.elapsed >= seq.duration THEN seq.final
    ELSE [c \in DOMAIN seq.init |-> Lerp(seq.init[c], seq.final[c], p)]

\* Variant: the sequence stops in its first frame.
SeqUpdate_StopsAtOnce(seq, delta, cam, camera_api) ==
    [seq |-> [seq EXCEPT !.playing = FALSE], cam |-> cam, wrote |-> FALSE]

\* AnimationSequence::Update(delta_time_ms, camera_api): the new sequence,
\* the new device pose and whether a pose was written.
SeqUpdate(seq, delta, cam, camera_api) ==
    IF ~seq.playing THEN [seq |-> seq, cam |-> cam, wrote |-> FALSE]
    ELSE
      LET e1 == seq.elapsed + delta
          done == e1 >= seq.duration
          s1 == [seq EXCEPT !.elapsed = IF done THEN seq.duration ELSE e1,
                            !.playing = ~done]
      IN IF ~camera_api THEN [seq |-> s1, cam |-> cam, wrote |-> FALSE]
         ELSE [seq |-> s1, cam |-> PoseAt(s1), wrote |-> TRUE]

\* ------------------------------------------------------------------------
\* Sequence factories
\* ------------------------------------------------------------------------
\* Duration each registered factory passes to AnimationSequence::Initialize.
SequenceDuration(from, to) ==
    CASE from = Driver /\ to = Passenger    -> DRIVER_TO_PASSENGER_MS * 1000
      [] from = Passenger /\ to = Driver    -> PASSENGER_TO_DRIVER_MS * 1000
      [] from = Driver /\ to = Standing     -> DRIVER_TO_STANDING
      [] from = Standing /\ to = Driver     -> STANDING_TO_DRIVER_MS * 1000
      [] from = Standing /\ to = Passenger  -> DRIVER_TO_PASSENGER_DURATION
      [] from = SofaSit1 /\ to = Standing   -> SOFA_TO_STANDING_MS * 1000
      [] from = SofaSit1 /\ to = SofaLie    -> SOFA_SIT1_TO_LIE_DURATION
      [] from = SofaLie /\ to = SofaSit2    -> SOFA_LIE_TO_SIT2_DURATION
      [] from = SofaSit2 /\ to = SofaSit1   -> SOFA_SIT2_TO_SIT1_DURATION
      [] from = SofaLie /\ to = SofaSit1    -> SOFA_LIE_TO_SIT1_DURATION
      [] OTHER                              -> 0

\* Factories whose source file is not part of the tree (Passenger to Standing,
\* Standing to SofaSit1, SofaSit1 to SofaSit2): duration of the matching
\* setting or constant.
MissingFactoryDuration(from, to) ==
    CASE from = Passenger /\ to = Standing  -> PASSENGER_TO_STANDING
      [] from = Standing /\ to = SofaSit1   -> STANDING_TO_SOFA_MS * 1000
      [] from = SofaSit1 /\ to = SofaSit2   -> SOFA_SIT2_TO_SIT1_DURATION
      [] OTHER                              -> 0

MissingFactories == {<<Passenger, Standing>>, <<Standing, SofaSit1>>, <<SofaSit1, SofaSit2>>}

\* Variant: every track ends on the value it started from.
FactoryFinal_KeepsStart(from, to, start_state, target_state, has_pending) == start_state

\* The pose the factory's tracks evaluate to at progress 1.0: the value of
\* the last keyframe of each track.
FactoryFinal(from, to, start_state, target_state, has_pending) ==
    CASE from = Passenger /\ to = Driver   -> [target_state EXCEPT !.yaw = 0]
      [] from = Standing /\ to = Driver    -> [target_state EXCEPT !.yaw = 0]
      [] from = Standing /\ to = Passenger -> [target_state EXCEPT !.yaw = 0]
      [] from = Driver /\ to = Standing    ->
            IF has_pending THEN [target_state EXCEPT !.yaw = target_state.yaw - 75]
            ELSE target_state
      [] OTHER                             -> target_state

\* The missing factories are taken to end on the target pose.
MissingFactoryFinal(from, to, start_state, target_state) == target_state

\* The (from, to) pairs Initialize registers with RegisterSequence.
Graph ==
    { <<Driver, Passenger>>, <<Passenger, Driver>>,
      <<Driver, Standing>>, <<Standing, Driver>>,
      <<Passenger, Standing>>, <<Standing, Passenger>>,
      <<Standing, SofaSit1>>, <<SofaSit1, Standing>>,
      <<SofaSit1, SofaLie>>, <<SofaSit1, SofaSit2>>,
      <<SofaLie, SofaSit2>>, <<SofaLie, SofaSit1>>,
      <<SofaSit2, SofaSit1>> }

\* it->second(initial_state, animation_target_state)
MakeMajorSequence(from, to, start_state, target_state, has_pending) ==
    IF <<from, to>> \in MissingFactories
    THEN NewSeq("major", to, MissingFactoryDuration(from, to),
                MissingFactoryFinal(from, to, start_state, target_state))
    ELSE NewSeq("major", to, SequenceDuration(from, to),
                FactoryFinal(from, to, start_state, target_state, has_pending))

CreateCrouchDownSequence(st) ==
    NewSeq("crouch_down", None, CROUCH_DURATION,
           [st EXCEPT !.y = st.y - CROUCH_DEPTH, !.pitch = 0])

CreateStandUpSequence(st) ==
    NewSeq("stand_up", None, CROUCH_DURATION,
           [st EXCEPT !.y = st.y + CROUCH_DEPTH, !.pitch = 0])

CreateTiptoeSequence(st) ==
    NewSeq("tiptoe_up", None, TIPTOE_DURATION,
           [st EXCEPT !.y = st.y + TIPTOE_HEIGHT, !.pitch = 0])

CreateStandDownSequence(st) ==
    NewSeq("stand_down", None, TIPTOE_DURATION,
           [st EXCEPT !.y = st.y - TIPTOE_HEIGHT, !.pitch = 0])

StepTargetZ(st, is_walking_forward) ==
    st.z + (IF is_walking_forward THEN -STEP_AMOUNT ELSE STEP_AMOUNT)

CreateWalkStepSequence(st, is_walking_forward) ==
    NewSeq("walk_step", None, STEP_DURATION,
           [st EXCEPT !.z = StepTargetZ(st, is_walking_forward)])

FirstStepTargetYaw(st, is_walking_forward) ==
    IF is_walking_forward THEN 0
    ELSE IF st.yaw < 0 THEN -M_PI ELSE M_PI

FirstStepDuration(st, is_walking_forward) ==
    LET a0 == Abs(st.yaw - FirstStepTargetYaw(st, is_walking_forward))
        angle_to_turn == IF a0 > M_PI THEN 2 * M_PI - a0 ELSE a0
        turn == BASE_TURN_DURATION
                + ((angle_to_turn * (EXTRA_TURN_DURATION_PER_PI \div 1000)) \div M_PI) * 1000
    IN IF turn < STEP_DURATION THEN STEP_DURATION ELSE turn

CreateDynamicFirstStepSequence(st, is_walking_forward) ==
    NewSeq("first_step", None, FirstStepDuration(st, is_walking_forward),
           [st EXCEPT !.z = StepTargetZ(st, is_walking_forward),
                      !.yaw = FirstStepTargetYaw(st, is_walking_forward)])

\* ------------------------------------------------------------------------
\* State
\* ------------------------------------------------------------------------
\* No call of GetGazeDirection has been made.
NoGaze == "none"

\* Track(): no keyframes.  added lists the keyframes in the order of the
\* AddKeyframe calls, returned holds what the last call of Evaluate gave, if
\* one was made since the last AddKeyframe.
NewTrack == [m_keyframes |-> <<>>, added |-> <<>>, returned |-> <<>>]

VARIABLES
    g_ctx,               \* PluginContext: coreAPI, cameraAPI (non-null?), sofa enabled flags
    g_is_walk_key_down,  \* SPF_CabinWalk.cpp
    anim,                \* statics of namespace AnimationController
    stand,               \* statics of namespace StandingAnimController
    camera,              \* the interior camera pose held by the game
    g_current_camera_pos,\* CameraHookManager: the logical position it was last told
    gaze,                \* what GetGazeDirection returned for the camera yaw, if it was called
    track,               \* one Track<float>: m_keyframes, the calls made, what Evaluate last returned
    frame_dt,            \* history: the frame time of the last step if it was OnUpdate, else 0
    safety,              \* history: the safety evaluation of the last step's keybind request
    requested,           \* history: the destination the last step passed to OnRequestMove, else None
    legs,                \* history: the legs MoveTo started during the last step
    refused,             \* history: the calls of MoveTo that returned early during the last step
    unguarded,           \* history: the last step made a camera call no null check dominates
    null_deref,          \* a null camera API was dereferenced
    crouch_zone_time     \* history: how long the pitch has been inside the crouch zone without leaving

vars == <<g_ctx, g_is_walk_key_down, anim, stand, camera, g_current_camera_pos,
          gaze, track, frame_dt,
          safety, requested, legs, refused, unguarded, null_deref, crouch_zone_time>>

\* The state a handler works on, and what it has done so far.
State ==
    [g_ctx |-> g_ctx, g_is_walk_key_down |-> g_is_walk_key_down, anim |-> anim,
     stand |-> stand, camera |-> camera,
     g_current_camera_pos |-> g_current_camera_pos, requested |-> None, legs |-> <<>>,
     refused |-> <<>>,
     unguarded |-> FALSE, null_deref |-> null_deref]

IsAnimating(s) == SeqIsPlaying(s.anim.g_active_sequence)

\* Variant: the stance controller never reports an animation.
StandIsAnimating_Never(s) == FALSE

StandIsAnimating(s) == SeqIsPlaying(s.stand.g_active_sequence)

GetCurrentStance(s) == s.stand.g_current_stance

GetCurrentPosition(s) == s.anim.g_current_pos

\* Variant: the hook manager is not told.
SetCurrentCameraPosition_Ignored(s, new_pos) == s

\* CameraHookManager::SetCurrentCameraPosition
SetCurrentCameraPosition(s, new_pos) == [s EXCEPT !.g_current_camera_pos = new_pos]

HasPendingMoves(s) == s.anim.g_pending_moves # <<>>

QueueMove(s, target) == [s EXCEPT !.anim.g_pending_moves = Append(@, target)]

ClearPendingMoves(s) == [s EXCEPT !.anim.g_pending_moves = <<>>]

GetTargetTransformForPosition(s, pos) ==
    IF pos = Driver THEN s.anim.g_cached_driver_state ELSE SettingsPose(pos)

GetTargetZForPosition(s, pos) ==
    CASE pos = Driver -> s.anim.g_cached_driver_state.z
      [] pos \in {Passenger, SofaSit1, SofaLie, SofaSit2} -> SettingsPose(pos).z
      [] OTHER -> 0

\* A call through g_ctx->cameraAPI; guarded says whether a null check of the
\* pointer dominates the call inside the handler that is running.
CameraCall(s, guarded) ==
    [s EXCEPT !.unguarded = @ \/ ~guarded,
              !.null_deref = @ \/ (~guarded /\ ~s.g_ctx.cameraAPI)]

\* ------------------------------------------------------------------------
\* StandingAnimController
\* ------------------------------------------------------------------------
\* Variant: the stance controller is not reset.
OnEnterStandingState_Noop(s) == s

OnEnterStandingState(s) ==
    [s EXCEPT !.stand.g_current_stance = St_Standing, !.stand.g_active_sequence = NullSeq]

\* Variant: the target stance is taken on when the sequence starts.
StartStanceSequence_CommitsAtOnce(s, seq, current_state, to_stance) ==
    [s EXCEPT !.stand.g_active_sequence = SeqStart(seq, current_state),
              !.stand.g_current_stance = to_stance,
              !.stand.g_transition_to_stance = to_stance]

StartStanceSequence(s, seq, current_state, to_stance) ==
    [s EXCEPT !.stand.g_active_sequence = SeqStart(seq, current_state),
              !.stand.g_current_stance = St_InTransition,
              !.stand.g_transition_to_stance = to_stance]

\* Variant: the stand-up is not started.
TriggerStandUp_Noop(s, guarded) == s

TriggerStandUp(s, guarded) ==
    IF StandIsAnimating(s) \/ s.stand.g_current_stance # St_Crouching THEN s
    ELSE LET s1 == CameraCall(s, guarded)
         IN StartStanceSequence(s1, CreateStandUpSequence(s1.camera), s1.camera, St_Standing)

TriggerStandDown(s, guarded) ==
    IF StandIsAnimating(s) \/ s.stand.g_current_stance # St_Tiptoes THEN s
    ELSE LET s1 == CameraCall(s, guarded)
         IN StartStanceSequence(s1, CreateStandDownSequence(s1.camera), s1.camera, St_Standing)

\* Variant: every step is started as a first step.
StartWalkStep_AlwaysFirst(s, current_state, is_walking_forward) ==
    [s EXCEPT !.stand.g_active_sequence =
                  SeqStart(CreateDynamicFirstStepSequence(current_state, is_walking_forward),
                           current_state),
              !.stand.g_has_taken_first_step = TRUE]

StartWalkStep(s, current_state, is_walking_forward) ==
    [s EXCEPT !.stand.g_active_sequence =
                  SeqStart(IF ~s.stand.g_has_taken_first_step
                           THEN CreateDynamicFirstStepSequence(current_state, is_walking_forward)
                           ELSE CreateWalkStepSequence(current_state, is_walking_forward),
                           current_state),
              !.stand.g_has_taken_first_step = TRUE]

\* Variant: the walk zone has no limits.
InWalkZone_Unbounded(z) == TRUE

InWalkZone(z) == z >= MIN_Z /\ z <= MAX_Z

TriggerWalkStepTowards(s, current_state, is_walking_forward) ==
    IF StandIsAnimating(s) THEN s
    ELSE IF InWalkZone(StepTargetZ(current_state, is_walking_forward))
         THEN StartWalkStep(s, current_state, is_walking_forward)
         ELSE [s EXCEPT !.stand.g_has_taken_first_step = FALSE]

\* Variant: the body of the one-argument revision, which measures the
\* distance from Z = 0 whatever the target is.
CanSitDown_FromZero(s, target, target_z) == ~(s.camera.z > STEP_AMOUNT)

\* CanSitDown(target, target_z): whether the caller may sit down at once.
CanSitDown(s, target, target_z) == ~(s.camera.z > target_z + STEP_AMOUNT)

\* The state CanSitDown leaves: it starts the walk when it answers false.
CanSitDownEffect(s, target, target_z) ==
    LET s1 == CameraCall(s, TRUE)
    IN IF CanSitDown(s, target, target_z) THEN s1
       ELSE [s1 EXCEPT !.stand.g_current_stance = St_Walking,
                       !.stand.g_final_destination = target]

\* ------------------------------------------------------------------------
\* AnimationController::MoveTo
\* ------------------------------------------------------------------------
Refuse(s, target, why) == [s EXCEPT !.refused = Append(@, [target |-> target, why |-> why])]

\* MoveTo, lines 331-414: the factory's sequence when the edge is registered,
\* the snap otherwise.
StartTransition(s, target) ==
    LET s1 == CameraCall(s, TRUE)
        initial_state == s1.camera
        from == s1.anim.g_current_pos
    IN IF <<from, target>> \in Graph
       THEN LET cached == IF from = Driver THEN initial_state
                          ELSE s1.anim.g_cached_driver_state
                animation_target_state == IF target = Driver THEN cached
                                          ELSE SettingsPose(target)
                seq == MakeMajorSequence(from, target, initial_state,
                                         animation_target_state, HasPendingMoves(s1))
            IN [s1 EXCEPT !.anim.g_cached_driver_state = cached,
                          !.anim.last_simulation_time = 0,
                          !.anim.g_active_sequence = SeqStart(seq, initial_state),
                          !.anim.g_target_pos = target,
                          !.legs = Append(@, [from |-> from, to |-> target, animated |-> TRUE])]
       ELSE LET s2 == [s1 EXCEPT !.anim.g_current_pos = target,
                                 !.anim.g_target_pos = target,
                                 !.anim.g_active_sequence = NullSeq,
                                 !.camera = GetTargetTransformForPosition(s1, target),
                                 !.legs = Append(@, [from |-> from, to |-> target,
                                                     animated |-> FALSE])]
            IN SetCurrentCameraPosition(
                  IF target = Standing THEN OnEnterStandingState(s2) ELSE s2, target)

SeatOrFirstSofa == {Driver, Passenger, SofaSit1}

MoveTo(s, target) ==
    IF IsAnimating(s) \/ StandIsAnimating(s) THEN Refuse(s, target, "busy")
    ELSE IF target = s.anim.g_current_pos THEN Refuse(s, target, "same")
    ELSE IF ~s.g_ctx.cameraAPI THEN Refuse(s, target, "api")
    ELSE IF s.anim.g_current_pos = Standing /\ target \in SeatOrFirstSofa
    THEN IF GetCurrentStance(s) # St_Standing
         THEN LET q == QueueMove(s, target)
              IN IF GetCurrentStance(s) = St_Crouching THEN TriggerStandUp(q, TRUE)
                 ELSE IF GetCurrentStance(s) = St_Tiptoes THEN TriggerStandDown(q, TRUE)
                 ELSE q
         ELSE LET target_z == GetTargetZForPosition(s, target)
                  s1 == IF target = SofaSit1 THEN s ELSE CameraCall(s, TRUE)
              IN IF target # SofaSit1 /\ s1.camera.z < 0 THEN StartTransition(s1, target)
                 ELSE IF CanSitDown(s1, target, target_z)
                      THEN StartTransition(CanSitDownEffect(s1, target, target_z), target)
                      ELSE CanSitDownEffect(s1, target, target_z)
    ELSE StartTransition(s, target)

\* ------------------------------------------------------------------------
\* StandingAnimController::Update
\* ------------------------------------------------------------------------
\* case Stance::Standing, lines 133-178: the hold-time triggers.
StanceTriggers(s, current_state, delta) ==
    IF current_state.pitch < CROUCH_DOWN_ANGLE
    THEN LET t == s.stand.g_time_in_crouch_zone + delta
             s1 == [s EXCEPT !.stand.g_time_in_crouch_zone = t,
                             !.stand.g_time_in_tiptoe_zone = 0]
         IN IF t >= HOLD_TIME_MS
            THEN StartStanceSequence([s1 EXCEPT !.stand.g_time_in_crouch_zone = 0],
                                     CreateCrouchDownSequence(current_state),
                                     current_state, St_Crouching)
            ELSE s1
    ELSE IF current_state.pitch > TIPTOE_UP_ANGLE
    THEN LET t == s.stand.g_time_in_tiptoe_zone + delta
             s1 == [s EXCEPT !.stand.g_time_in_tiptoe_zone = t,
                             !.stand.g_time_in_crouch_zone = 0]
         IN IF t >= HOLD_TIME_MS
            THEN StartStanceSequence([s1 EXCEPT !.stand.g_time_in_tiptoe_zone = 0],
                                     CreateTiptoeSequence(current_state),
                                     current_state, St_Tiptoes)
            ELSE s1
    ELSE [s EXCEPT !.stand.g_time_in_crouch_zone = 0, !.stand.g_time_in_tiptoe_zone = 0]

\* case Stance::Standing, lines 94-180
StanceStanding(s, current_state, delta) ==
    LET s1 == [s EXCEPT !.stand.g_time_in_standup_zone = 0,
                        !.stand.g_time_in_standdown_zone = 0]
        is_walking_forward == current_state.yaw >= -M_PI_2 /\ current_state.yaw <= M_PI_2
    IN IF s1.g_is_walk_key_down
       THEN IF InWalkZone(StepTargetZ(current_state, is_walking_forward))
            THEN StartWalkStep(s1, current_state, is_walking_forward)
            ELSE StanceTriggers(s1, current_state, delta)
       ELSE StanceTriggers([s1 EXCEPT !.stand.g_has_taken_first_step = FALSE],
                           current_state, delta)

\* case Stance::Crouching, lines 181-200
StanceCrouching(s, current_state, delta) ==
    LET s1 == [s EXCEPT !.stand.g_time_in_crouch_zone = 0, !.stand.g_time_in_tiptoe_zone = 0]
        t == s1.stand.g_time_in_standup_zone + delta
    IN IF current_state.pitch > STAND_UP_ANGLE
       THEN IF t >= HOLD_TIME_MS
            THEN TriggerStandUp([s1 EXCEPT !.stand.g_time_in_standup_zone = 0], FALSE)
            ELSE [s1 EXCEPT !.stand.g_time_in_standup_zone = t]
       ELSE [s1 EXCEPT !.stand.g_time_in_standup_zone = 0]

\* case Stance::Tiptoes, lines 201-220
StanceTiptoes(s, current_state, delta) ==
    LET s1 == [s EXCEPT !.stand.g_time_in_crouch_zone = 0, !.stand.g_time_in_tiptoe_zone = 0]
        t == s1.stand.g_time_in_standdown_zone + delta
    IN IF current_state.pitch < STAND_DOWN_ANGLE
       THEN IF t >= HOLD_TIME_MS
            THEN TriggerStandDown([s1 EXCEPT !.stand.g_time_in_standdown_zone = 0], FALSE)
            ELSE [s1 EXCEPT !.stand.g_time_in_standdown_zone = t]
       ELSE [s1 EXCEPT !.stand.g_time_in_standdown_zone = 0]

\* The walking-home case, lines 223-247
StanceWalking(s, current_state) ==
    IF Abs(current_state.z - 0) <= STEP_AMOUNT
    THEN MoveTo([s EXCEPT !.stand.g_current_stance = St_Standing],
                s.stand.g_final_destination)
    ELSE TriggerWalkStepTowards(s, current_state, current_state.z > 0)

StandUpdate(s, current_state) ==
    IF ~s.g_ctx.coreAPI THEN s
    ELSE
      LET delta_time_ms == s.stand.last_simulation_time
          s1 == [s EXCEPT !.stand.last_simulation_time = 0]
          stance == s1.stand.g_current_stance
      IN IF StandIsAnimating(s1)
         THEN LET u == SeqUpdate(s1.stand.g_active_sequence, delta_time_ms,
                                 s1.camera, s1.g_ctx.cameraAPI)
              IN IF u.seq.playing
                 THEN [s1 EXCEPT !.stand.g_active_sequence = u.seq, !.camera = u.cam]
                 ELSE [s1 EXCEPT !.stand.g_active_sequence = NullSeq, !.camera = u.cam,
                                 !.stand.g_current_stance =
                                     IF stance = St_InTransition
                                     THEN s1.stand.g_transition_to_stance ELSE stance]
         ELSE CASE stance = St_Standing  -> StanceStanding(s1, current_state, delta_time_ms)
                [] stance = St_Crouching -> StanceCrouching(s1, current_state, delta_time_ms)
                [] stance = St_Tiptoes   -> StanceTiptoes(s1, current_state, delta_time_ms)
                [] stance = St_Walking   -> StanceWalking(s1, current_state)
                [] OTHER                 -> s1

\* ------------------------------------------------------------------------
\* AnimationController::Update, OnRequestMove
\* ------------------------------------------------------------------------
\* Variant: a settings change is applied whatever is playing.
ApplySettings_AnyTime(s) ==
    IF s.anim.g_settings_dirty
    THEN [s EXCEPT !.camera = IF s.anim.g_current_pos # Driver /\ s.g_ctx.cameraAPI
                              THEN SettingsPose(s.anim.g_current_pos)
                              ELSE @,
                   !.anim.g_settings_dirty = FALSE]
    ELSE s

\* Update, lines 167-195
ApplySettings(s) ==
    IF s.anim.g_settings_dirty /\ ~IsAnimating(s) /\ ~StandIsAnimating(s)
    THEN [s EXCEPT !.camera = IF s.anim.g_current_pos # Driver /\ s.g_ctx.cameraAPI
                              THEN GetTargetTransformForPosition(s, s.anim.g_current_pos)
                              ELSE @,
                   !.anim.g_settings_dirty = FALSE]
    ELSE s

\* next_move = g_pending_moves.front(); g_pending_moves.pop(); MoveTo(next_move)
PopAndMove(s) ==
    MoveTo([s EXCEPT !.anim.g_pending_moves = Tail(@)], Head(s.anim.g_pending_moves))

\* Variant: the call in which a leg finishes goes on through the whole queue.
MajorUpdate_DrainsQueue(s) ==
    LET delta_time_ms == s.anim.last_simulation_time
        u == SeqUpdate(s.anim.g_active_sequence, delta_time_ms, s.camera, s.g_ctx.cameraAPI)
        s1 == [s EXCEPT !.anim.last_simulation_time = 0, !.camera = u.cam]
    IN IF u.seq.playing THEN [s1 EXCEPT !.anim.g_active_sequence = u.seq]
       ELSE LET s2 == SetCurrentCameraPosition(
                         [s1 EXCEPT !.anim.g_active_sequence = NullSeq,
                                    !.anim.g_current_pos = s1.anim.g_target_pos],
                         s1.anim.g_target_pos)
                s3 == IF HasPendingMoves(s2) THEN PopAndMove(s2) ELSE s2
            IN IF HasPendingMoves(s3) THEN PopAndMove(s3) ELSE s3

\* Variant: the finished sequence is dropped and the position stays.
MajorUpdate_KeepsPosition(s) ==
    LET delta_time_ms == s.anim.last_simulation_time
        u == SeqUpdate(s.anim.g_active_sequence, delta_time_ms, s.camera, s.g_ctx.cameraAPI)
        s1 == [s EXCEPT !.anim.last_simulation_time = 0, !.camera = u.cam]
    IN IF u.seq.playing THEN [s1 EXCEPT !.anim.g_active_sequence = u.seq]
       ELSE [s1 EXCEPT !.anim.g_active_sequence = NullSeq]

\* Update, lines 211-246
MajorUpdate(s) ==
    LET delta_time_ms == s.anim.last_simulation_time
        u == SeqUpdate(s.anim.g_active_sequence, delta_time_ms, s.camera, s.g_ctx.cameraAPI)
        s1 == [s EXCEPT !.anim.last_simulation_time = 0, !.camera = u.cam]
    IN IF u.seq.playing THEN [s1 EXCEPT !.anim.g_active_sequence = u.seq]
       ELSE LET s2 == SetCurrentCameraPosition(
                         [s1 EXCEPT !.anim.g_active_sequence = NullSeq,
                                    !.anim.g_current_pos = s1.anim.g_target_pos],
                         s1.anim.g_target_pos)
                s3 == IF s2.anim.g_current_pos = Standing THEN OnEnterStandingState(s2) ELSE s2
            IN IF HasPendingMoves(s3) /\ ~IsAnimating(s3) /\ ~StandIsAnimating(s3)
               THEN PopAndMove(s3)
               ELSE s3

Update(s) ==
    IF ~s.g_ctx.coreAPI THEN s
    ELSE
      LET s1 == ApplySettings(s)
      IN IF HasPendingMoves(s1) /\ ~IsAnimating(s1) /\ ~StandIsAnimating(s1)
            /\ GetCurrentStance(s1) = St_Standing
         THEN PopAndMove(s1)
         ELSE IF IsAnimating(s1) THEN MajorUpdate(s1)
         ELSE IF s1.anim.g_current_pos = Standing
              THEN StandUpdate(CameraCall(s1, FALSE), s1.camera)
              ELSE s1

\* Variant: a request is accepted while legs are queued.
RequestRefused_IgnoringQueue(s) == IsAnimating(s) \/ StandIsAnimating(s)

\* Variant: a request is accepted while a stance sequence plays.
RequestRefused_IgnoringStance(s) == HasPendingMoves(s) \/ IsAnimating(s)

\* OnRequestMove, line 430: a request is dropped while a path is in progress.
RequestRefused(s) == HasPendingMoves(s) \/ IsAnimating(s) \/ StandIsAnimating(s)

\* Variant: every request is planned as one direct leg.
PlanPath_Direct(current_pos, final_destination) == <<final_destination>>

\* OnRequestMove, lines 446-494: the legs queued for a request.
PlanPath(current_pos, final_destination) ==
    IF (current_pos = Driver /\ final_destination = Passenger)
       \/ (current_pos = Passenger /\ final_destination = Driver)
    THEN <<final_destination>>
    ELSE IF current_pos \in {SofaLie, SofaSit2, SofaSit1}
    THEN LET needs_to_stand == final_destination \in {Standing, Driver, Passenger}
             q1 == IF current_pos \in {SofaLie, SofaSit2} THEN <<SofaSit1>> ELSE <<>>
             q2 == IF needs_to_stand THEN Append(q1, Standing) ELSE q1
         IN IF q2 = <<>> \/ q2[Len(q2)] # final_destination
            THEN Append(q2, final_destination) ELSE q2
    ELSE IF current_pos \in {Driver, Passenger}
    THEN IF final_destination # Standing THEN <<Standing, final_destination>>
         ELSE <<Standing>>
    ELSE <<final_destination>>

\* Variant: the destination is not compared with the current position.
OnRequestMove_NoSameCheck(s0, final_destination) ==
    LET s == [s0 EXCEPT !.requested = final_destination]
    IN IF RequestRefused(s) THEN s
       ELSE PopAndMove([s EXCEPT !.anim.g_pending_moves =
                           PlanPath(GetCurrentPosition(s), final_destination)])

OnRequestMove(s0, final_destination) ==
    LET s == [s0 EXCEPT !.requested = final_destination]
    IN IF RequestRefused(s) THEN s
       ELSE IF GetCurrentPosition(s) = final_destination THEN s
       ELSE LET s1 == [ClearPendingMoves(s) EXCEPT !.anim.g_pending_moves =
                           PlanPath(GetCurrentPosition(s), final_destination)]
            IN IF HasPendingMoves(s1) THEN PopAndMove(s1) ELSE s1

\* ------------------------------------------------------------------------
\* SPF_CabinWalk.cpp: keybind handlers
\* ------------------------------------------------------------------------
IsSafeToLeaveDriverSeat(s, speed, parking_brake) ==
    IF GetCurrentPosition(s) # Driver THEN TRUE
    ELSE IF ~s.g_ctx.coreAPI THEN FALSE
    ELSE Abs(speed) < SAFE_SPEED /\ parking_brake

SofaCycle == <<SofaSit1, SofaLie, SofaSit2>>

GetNextEnabledSofaPos(s, current_pos) ==
    LET is_enabled(pos) == s.g_ctx.sofa_enabled[pos]
        idx == {i \in 1..Len(SofaCycle) : SofaCycle[i] = current_pos}
    IN IF idx = {}
       THEN LET on == {i \in 1..Len(SofaCycle) : is_enabled(SofaCycle[i])}
            IN IF on = {} THEN None
               ELSE SofaCycle[CHOOSE i \in on : \A j \in on : i <= j]
       ELSE LET current_idx == CHOOSE i \in idx : TRUE
                at(i) == SofaCycle[((current_idx - 1 + i) % Len(SofaCycle)) + 1]
                ok == {i \in 1..Len(SofaCycle) : is_enabled(at(i)) /\ at(i) # current_pos}
            IN IF ok = {} THEN None
               ELSE at(CHOOSE i \in ok : \A j \in ok : i <= j)

MoveToPassengerSeat(s, speed, parking_brake) ==
    IF ~IsSafeToLeaveDriverSeat(s, speed, parking_brake) THEN s
    ELSE OnRequestMove(s, Passenger)

MoveToDriverSeat(s) == OnRequestMove(s, Driver)

MoveToStandingPosition(s, speed, parking_brake) ==
    IF ~IsSafeToLeaveDriverSeat(s, speed, parking_brake) THEN s
    ELSE IF GetCurrentPosition(s) = Standing
         THEN [s EXCEPT !.g_is_walk_key_down = ~@]
         ELSE OnRequestMove(s, Standing)

CycleSofaPositions(s, speed, parking_brake) ==
    IF ~IsSafeToLeaveDriverSeat(s, speed, parking_brake) THEN s
    ELSE IF IsAnimating(s) \/ HasPendingMoves(s) THEN s
    ELSE LET next_pos == GetNextEnabledSofaPos(s, GetCurrentPosition(s))
         IN IF next_pos # None THEN OnRequestMove(s, next_pos) ELSE s

\* ------------------------------------------------------------------------
\* Environment
\* ------------------------------------------------------------------------
\* Truck telemetry read by a keybind handler: speed (times 100) and parking brake.
Speeds == {-SAFE_SPEED, 0}

\* Head rotations the player turns the camera to while standing.
LookYaws == {0, 200}
LookPitches == {-80, 60}

\* The sofa position the stored settings disable, None for none.
DisabledSofa == {None, SofaSit1}

\* What README.md calls safe: the truck is stationary and the parking brake is
\* on.  "none" when the handler did not read the telemetry.
Safety(evaluated, speed, parking_brake) ==
    IF ~evaluated THEN "none"
    ELSE IF Abs(speed) < SAFE_SPEED /\ parking_brake THEN "held" ELSE "failed"

InCrouchZone(pose) == pose.pitch < CROUCH_DOWN_ANGLE

\* The time the pitch has stayed inside the crouch zone up to the instant of
\* the step, saturated at the hold time: the pitch held during the frame is
\* the one the step finds.
ZoneTime(before, dt) ==
    IF InCrouchZone(before) THEN Min(crouch_zone_time + dt, HOLD_TIME_MS) ELSE 0

\* The simulation clock moves on by dt.
Advance(s, dt) ==
    [s EXCEPT !.anim.last_simulation_time = IF IsAnimating(s) THEN @ + dt ELSE @,
              !.stand.last_simulation_time = Min(@ + dt, LagCap)]

\* ------------------------------------------------------------------------
\* Actions
\* ------------------------------------------------------------------------
Commit(r, dt, safe) ==
    /\ g_ctx' = r.g_ctx
    /\ g_is_walk_key_down' = r.g_is_walk_key_down
    /\ anim' = r.anim
    /\ stand' = r.stand
    /\ camera' = r.camera
    /\ g_current_camera_pos' = r.g_current_camera_pos
    /\ UNCHANGED <<gaze, track>>
    /\ requested' = r.requested
    /\ legs' = r.legs
    /\ refused' = r.refused
    /\ unguarded' = r.unguarded
    /\ null_deref' = r.null_deref
    /\ frame_dt' = dt
    /\ safety' = safe
    /\ crouch_zone_time' = ZoneTime(camera, dt)

Running == g_ctx.coreAPI /\ ~null_deref

\* The framework activates the plugin: core_api->camera may be null,
\* LoadSettings reads the enabled flags, Initialize puts the controller at Driver.
OnActivated ==
    /\ ~g_ctx.coreAPI
    /\ \E has_camera \in BOOLEAN, off \in DisabledSofa :
          Commit([State EXCEPT !.g_ctx.coreAPI = TRUE, !.g_ctx.cameraAPI = has_camera,
                               !.g_ctx.sofa_enabled = [p \in SofaPositions |-> p # off],
                               !.anim.g_current_pos = Driver],
                 0, "none")

\* One frame: the simulation time has moved on by dt since the last frame.
OnUpdate ==
    /\ Running
    /\ \E dt \in Deltas : Commit(Update(Advance(State, dt)), dt, "none")

OnMoveToPassengerSeat ==
    /\ Running
    /\ \E speed \in Speeds, parking_brake \in BOOLEAN :
          Commit(MoveToPassengerSeat(State, speed, parking_brake), 0,
                 Safety(anim.g_current_pos = Driver, speed, parking_brake))

OnMoveToDriverSeat ==
    /\ Running
    /\ Commit(MoveToDriverSeat(State), 0, "none")

OnMoveToStandingPosition ==
    /\ Running
    /\ \E speed \in Speeds, parking_brake \in BOOLEAN :
          Commit(MoveToStandingPosition(State, speed, parking_brake), 0,
                 Safety(anim.g_current_pos = Driver, speed, parking_brake))

OnCycleSofaPositions ==
    /\ Running
    /\ \E speed \in Speeds, parking_brake \in BOOLEAN :
          Commit(CycleSofaPositions(State, speed, parking_brake), 0,
                 Safety(anim.g_current_pos = Driver, speed, parking_brake))

\* The player turns the head while standing with no sequence playing.
LookAround ==
    /\ Running
    /\ g_ctx.cameraAPI
    /\ anim.g_current_pos = Standing
    /\ ~IsAnimating(State) /\ ~StandIsAnimating(State)
    /\ \E yaw \in LookYaws, pitch \in LookPitches :
          /\ <<yaw, pitch>> # <<camera.yaw, camera.pitch>>
          /\ Commit([State EXCEPT !.camera.yaw = yaw, !.camera.pitch = pitch],
                    0, "none")

Init ==
    /\ g_ctx = [coreAPI |-> FALSE, cameraAPI |-> FALSE,
                sofa_enabled |-> [p \in SofaPositions |-> TRUE]]
    /\ g_is_walk_key_down = FALSE
    /\ anim = [g_active_sequence |-> NullSeq, g_current_pos |-> Driver,
               g_target_pos |-> Driver, g_cached_driver_state |-> ZeroPose,
               last_simulation_time |-> 0, g_pending_moves |-> <<>>,
               g_settings_dirty |-> FALSE]
    /\ stand = [g_current_stance |-> St_Standing, g_final_destination |-> Driver,
                g_transition_to_stance |-> St_Standing, g_active_sequence |-> NullSeq,
                last_simulation_time |-> LagCap, g_has_taken_first_step |-> FALSE,
                g_time_in_crouch_zone |-> 0, g_time_in_tiptoe_zone |-> 0,
                g_time_in_standup_zone |-> 0, g_time_in_standdown_zone |-> 0]
    /\ camera = DriverSeatPose
    /\ g_current_camera_pos = Driver
    /\ gaze = NoGaze
    /\ track = NewTrack
    /\ frame_dt = 0
    /\ safety = "none"
    /\ requested = None
    /\ legs = <<>>
    /\ refused = <<>>
    /\ unguarded = FALSE
    /\ null_deref = FALSE
    /\ crouch_zone_time = 0

Next ==
    \/ OnActivated
    \/ OnUpdate
    \/ OnMoveToPassengerSeat
    \/ OnMoveToDriverSeat
    \/ OnMoveToStandingPosition
    \/ OnCycleSofaPositions
    \/ LookAround

Spec == Init /\ [][Next]_vars

\* ------------------------------------------------------------------------
\* Settings changes
\* ------------------------------------------------------------------------
\* NotifySettingsUpdated
NotifySettingsUpdated(s) == [s EXCEPT !.anim.g_settings_dirty = TRUE]

\* OnSettingChanged(config_handle, keyPath): LoadSettings reads the stored
\* values again (the ones read at activation); a key path under
\* settings.positions or settings.standing_movement notifies the controller.
SettingChanged(s, affects_position) ==
    IF affects_position THEN NotifySettingsUpdated(s) ELSE s

OnSettingChanged ==
    /\ Running
    /\ \E affects_position \in BOOLEAN :
          Commit(SettingChanged(State, affects_position), 0, "none")

\* The plugin is active (OnActivated has run with every sofa position enabled)
\* and the player is in the driver seat, as Initialize leaves the controller.
SettingsInit ==
    /\ \E has_camera \in BOOLEAN :
          g_ctx = [coreAPI |-> TRUE, cameraAPI |-> has_camera,
                   sofa_enabled |-> [p \in SofaPositions |-> TRUE]]
    /\ g_is_walk_key_down = FALSE
    /\ anim = [g_active_sequence |-> NullSeq, g_current_pos |-> Driver,
               g_target_pos |-> Driver, g_cached_driver_state |-> ZeroPose,
               last_simulation_time |-> 0, g_pending_moves |-> <<>>,
               g_settings_dirty |-> FALSE]
    /\ stand = [g_current_stance |-> St_Standing, g_final_destination |-> Driver,
                g_transition_to_stance |-> St_Standing, g_active_sequence |-> NullSeq,
                last_simulation_time |-> LagCap, g_has_taken_first_step |-> FALSE,
                g_time_in_crouch_zone |-> 0, g_time_in_tiptoe_zone |-> 0,
                g_time_in_standup_zone |-> 0, g_time_in_standdown_zone |-> 0]
    /\ camera = DriverSeatPose
    /\ g_current_camera_pos = Driver
    /\ gaze = NoGaze
    /\ track = NewTrack
    /\ frame_dt = 0
    /\ safety = "none"
    /\ requested = None
    /\ legs = <<>>
    /\ refused = <<>>
    /\ unguarded = FALSE
    /\ null_deref = FALSE
    /\ crouch_zone_time = 0

NextWithSettings ==
    \/ OnUpdate
    \/ OnMoveToPassengerSeat
    \/ OnMoveToDriverSeat
    \/ OnMoveToStandingPosition
    \/ OnCycleSofaPositions
    \/ LookAround
    \/ OnSettingChanged

\* The active plugin with the settings UI in use.
SettingsSpec == SettingsInit /\ [][NextWithSettings]_vars

\* ------------------------------------------------------------------------
\* The driver looks aside
\* ------------------------------------------------------------------------
\* A pose of the driver's seat camera with the head turned: the game lets the
\* player look around in the seat before any key of the plugin is pressed.
TurnedDriverPose == Pose(0, 0, 0, 20, -5)

\* The plugin is active with the camera API present and every sofa position
\* enabled, and the player sits in the driver seat looking aside.
HeadTurnedInit ==
    /\ g_ctx = [coreAPI |-> TRUE, cameraAPI |-> TRUE,
                sofa_enabled |-> [p \in SofaPositions |-> TRUE]]
    /\ g_is_walk_key_down = FALSE
    /\ anim = [g_active_sequence |-> NullSeq, g_current_pos |-> Driver,
               g_target_pos |-> Driver, g_cached_driver_state |-> ZeroPose,
               last_simulation_time |-> 0, g_pending_moves |-> <<>>,
               g_settings_dirty |-> FALSE]
    /\ stand = [g_current_stance |-> St_Standing, g_final_destination |-> Driver,
                g_transition_to_stance |-> St_Standing, g_active_sequence |-> NullSeq,
                last_simulation_time |-> LagCap, g_has_taken_first_step |-> FALSE,
                g_time_in_crouch_zone |-> 0, g_time_in_tiptoe_zone |-> 0,
                g_time_in_standup_zone |-> 0, g_time_in_standdown_zone |-> 0]
    /\ camera = TurnedDriverPose
    /\ g_current_camera_pos = Driver
    /\ gaze = NoGaze
    /\ track = NewTrack
    /\ frame_dt = 0
    /\ safety = "none"
    /\ requested = None
    /\ legs = <<>>
    /\ refused = <<>>
    /\ unguarded = FALSE
    /\ null_deref = FALSE
    /\ crouch_zone_time = 0

\* The handlers of the active plugin.
ActiveNext ==
    \/ OnUpdate
    \/ OnMoveToPassengerSeat
    \/ OnMoveToDriverSeat
    \/ OnMoveToStandingPosition
    \/ OnCycleSofaPositions
    \/ LookAround

HeadTurnedSpec == HeadTurnedInit /\ [][ActiveNext]_vars

\* ------------------------------------------------------------------------
\* A sequence on its own
\* ------------------------------------------------------------------------
\* The channels Update writes to the device (the roll track is evaluated by
\* no call of SetInteriorHeadRot).
Channels == {"x", "y", "z", "yaw", "pitch"}

\* Update at progress 1.0: a channel with keyframes takes the value of its
\* last keyframe (Track::Evaluate), a channel without keeps the component of
\* the pose given to Start.
TracksAtEnd(last_keyframe, initial_state) ==
    [c \in Channels |-> IF c \in DOMAIN last_keyframe THEN last_keyframe[c]
                        ELSE initial_state[c]]

\* Durations, start poses and last keyframes the sequences are built from.
SeqDurations == {STEP_DURATION, TIPTOE_DURATION, CROUCH_DURATION}

StartPoses == {SettingsPose(Standing), SettingsPose(Passenger)}

LastKeyframes == SettingsPose(SofaLie)

\* A sequence with keyframes on any set of channels, just started; the camera
\* is at the start pose.  anim.last_simulation_time holds the sum of the
\* deltas Update has been called with since Start.
SequenceInit ==
    /\ \E has_camera \in BOOLEAN :
          g_ctx = [coreAPI |-> TRUE, cameraAPI |-> has_camera,
                   sofa_enabled |-> [p \in SofaPositions |-> TRUE]]
    /\ g_is_walk_key_down = FALSE
    /\ \E d \in SeqDurations, p0 \in StartPoses, tracked \in SUBSET Channels :
          /\ anim = [g_active_sequence |->
                        SeqStart(NewSeq("tracks", None, d,
                                        TracksAtEnd([c \in tracked |-> LastKeyframes[c]], p0)),
                                 p0),
                     g_current_pos |-> Driver,
                     g_target_pos |-> Driver, g_cached_driver_state |-> ZeroPose,
                     last_simulation_time |-> 0, g_pending_moves |-> <<>>,
                     g_settings_dirty |-> FALSE]
          /\ camera = p0
    /\ stand = [g_current_stance |-> St_Standing, g_final_destination |-> Driver,
                g_transition_to_stance |-> St_Standing, g_active_sequence |-> NullSeq,
                last_simulation_time |-> LagCap, g_has_taken_first_step |-> FALSE,
                g_time_in_crouch_zone |-> 0, g_time_in_tiptoe_zone |-> 0,
                g_time_in_standup_zone |-> 0, g_time_in_standdown_zone |-> 0]
    /\ g_current_camera_pos = Driver
    /\ gaze = NoGaze
    /\ track = NewTrack
    /\ frame_dt = 0
    /\ safety = "none"
    /\ requested = None
    /\ legs = <<>>
    /\ refused = <<>>
    /\ unguarded = FALSE
    /\ null_deref = FALSE
    /\ crouch_zone_time = 0

\* One call of AnimationSequence::Update; calls go on for a while after the
\* duration has passed.
SequenceUpdate ==
    \E dt \in Deltas :
       /\ anim.last_simulation_time < anim.g_active_sequence.duration + MaxFrameSteps * FrameStep
       /\ LET u == SeqUpdate(anim.g_active_sequence, dt, camera, g_ctx.cameraAPI)
          IN /\ anim' = [anim EXCEPT !.g_active_sequence = u.seq,
                                     !.last_simulation_time = @ + dt]
             /\ camera' = u.cam
       /\ frame_dt' = dt
       /\ UNCHANGED <<g_ctx, g_is_walk_key_down, stand, g_current_camera_pos, gaze,
                      track, safety, requested, legs, refused, unguarded, null_deref, crouch_zone_time>>

SequenceSpec == SequenceInit /\ [][SequenceUpdate]_vars

\* ------------------------------------------------------------------------
\* Claims
\* ------------------------------------------------------------------------
LegsFrom(from) == {i \in DOMAIN legs : legs[i].from = from}

C2_LeavingDriverIsSafe == LegsFrom(Driver) # {} => safety = "held"

\* C3: a leg that MoveTo refuses because the camera API is null is still at
\* the head of the pending queue afterwards, to be retried on a later tick.
C3_LegKeptWithoutCamera ==
    \A i \in DOMAIN refused :
        refused[i].why = "api"
            => (anim.g_pending_moves # <<>> /\ Head(anim.g_pending_moves) = refused[i].target)

\* C4: while the camera API is null no step changes the current position,
\* the target position, the pending queue, the stance or the elapsed time
\* of the active sequence.
C4_NoProgressWithoutCamera ==
    [][(g_ctx.coreAPI /\ ~g_ctx.cameraAPI)
         => (/\ anim'.g_current_pos = anim.g_current_pos
             /\ anim'.g_target_pos = anim.g_target_pos
             /\ anim'.g_pending_moves = anim.g_pending_moves
             /\ stand'.g_current_stance = stand.g_current_stance
             /\ anim'.g_active_sequence.elapsed = anim.g_active_sequence.elapsed)]_vars

\* C5: every camera call a handler makes is dominated by a null check of the
\* camera API inside that handler, and no null camera API is dereferenced.
C5_CameraCallsGuarded == ~unguarded /\ ~null_deref

\* C6: at most one of the animation controller's active sequence and the
\* stance controller's active sequence is playing.
C6_OneSequencePlaying ==
    ~(SeqIsPlaying(anim.g_active_sequence) /\ SeqIsPlaying(stand.g_active_sequence))

\* C6 witness: a stance sequence is playing while a leg waits in the queue
\* and no major sequence plays.
C6_Witness ==
    /\ SeqIsPlaying(stand.g_active_sequence)
    /\ anim.g_pending_moves # <<>>
    /\ ~SeqIsPlaying(anim.g_active_sequence)

\* C7: a request for SofaLie made idle at Passenger starts the animated leg
\* Passenger to Standing and leaves <<SofaSit1, SofaLie>> queued, and every
\* leg that ends at SofaLie is an animated leg from SofaSit1.
C7_PassengerToSofaLieInThreeLegs ==
    /\ (requested = SofaLie /\ legs # <<>> /\ legs[1].from = Passenger)
          => (/\ legs = <<[from |-> Passenger, to |-> Standing, animated |-> TRUE]>>
              /\ anim.g_pending_moves = <<SofaSit1, SofaLie>>)
    /\ \A i \in DOMAIN legs :
          legs[i].to = SofaLie => (legs[i].from = SofaSit1 /\ legs[i].animated)

\* C8: a request made on a sofa position for another sofa position starts
\* the leg to that position and leaves nothing queued.
C8_SofaMovesAreDirect ==
    (requested \in SofaPositions /\ legs # <<>> /\ legs[1].from \in SofaPositions)
        => (legs[1].to = requested /\ anim.g_pending_moves = <<>>)

StandSequenceFor(stance) == IF stance = St_Crouching THEN "stand_up" ELSE "stand_down"

\* MoveTo has stashed t and the stand-up or stand-down it started is playing.
Stashed(t) ==
    /\ anim.g_current_pos = Standing
    /\ anim.g_pending_moves = <<t>>
    /\ SeqIsPlaying(stand.g_active_sequence)
    /\ stand.g_active_sequence.kind \in {"stand_up", "stand_down"}

\* The last step started the animated leg Standing to t.
Started(t) ==
    \E i \in DOMAIN legs : legs[i] = [from |-> Standing, to |-> t, animated |-> TRUE]

\* A request that reaches MoveTo at Standing in stance Crouching or Tiptoes
\* queues its target, starts the stand-up (stand-down) and starts no leg.
C9_Stash ==
    (/\ requested' \in SeatOrFirstSofa
     /\ anim.g_current_pos = Standing
     /\ stand.g_current_stance \in {St_Crouching, St_Tiptoes}
     /\ ~RequestRefused(State))
        => (/\ anim'.g_pending_moves = <<requested'>>
            /\ SeqIsPlaying(stand'.g_active_sequence)
            /\ stand'.g_active_sequence.kind = StandSequenceFor(stand.g_current_stance)
            /\ legs' = <<>>)

\* No leg starts in a step taken while the stashed target waits for the
\* stance sequence, or in the step that ends without stance Standing.
C9_NotBefore ==
    (\E t \in SeatOrFirstSofa : Stashed(t))
        => (/\ legs' = <<>>
            /\ anim'.g_pending_moves = anim.g_pending_moves
            /\ (SeqIsPlaying(stand'.g_active_sequence)
                \/ stand'.g_current_stance = St_Standing))

\* The stashed target t waits at Standing with nothing playing and stance Standing.
Waiting(t) ==
    /\ anim.g_current_pos = Standing
    /\ anim.g_pending_moves = <<t>>
    /\ ~SeqIsPlaying(anim.g_active_sequence)
    /\ ~SeqIsPlaying(stand.g_active_sequence)
    /\ stand.g_current_stance = St_Standing

\* The walk home on behalf of t is under way and no step of it is playing.
WalkingHome(t) ==
    /\ anim.g_current_pos = Standing
    /\ stand.g_current_stance = St_Walking
    /\ stand.g_final_destination = t
    /\ ~SeqIsPlaying(stand.g_active_sequence)

\* The frame after the stance sequence has finished with stance Standing
\* starts the leg to the stashed target.
C9_ThenLeg ==
    \A t \in SeatOrFirstSofa : (Waiting(t) /\ frame_dt' > 0) => Started(t)'

\* That frame starts the leg, or, with the camera more than one step beyond
\* the target's Z, the walk home on behalf of the target.
C9_ThenLegOrWalk ==
    \A t \in SeatOrFirstSofa :
        (Waiting(t) /\ frame_dt' > 0)
            => \/ Started(t)'
               \/ /\ camera.z > GetTargetZForPosition(State, t) + STEP_AMOUNT
                  /\ WalkingHome(t)'
                  /\ legs' = <<>>

\* A frame of the walk home starts the leg once the camera is within one
\* step of Z = 0, and a walk step towards it before.
C9_WalkEndsInLeg ==
    \A t \in SeatOrFirstSofa :
        (WalkingHome(t) /\ frame_dt' > 0)
            => IF Abs(camera.z) <= STEP_AMOUNT THEN Started(t)'
               ELSE /\ stand'.g_active_sequence.kind \in {"first_step", "walk_step"}
                    /\ Abs(stand'.g_active_sequence.final.z) < Abs(camera.z)
                    /\ stand'.g_current_stance = St_Walking
                    /\ stand'.g_final_destination = t

C10_CrouchNeedsHoldTime ==
    [][(/\ ~g_is_walk_key_down
        /\ stand'.g_active_sequence.kind = "crouch_down"
        /\ stand.g_active_sequence.kind # "crouch_down")
          => crouch_zone_time' >= HOLD_TIME_MS]_vars

\* C11: a frame at Standing with no major sequence playing or started (a
\* frame of the stance controller) that finds the pitch outside a stance
\* trigger zone leaves that zone's hold timer at 0, also when it starts a walk
\* step, so that time spent in the zone before the pitch left it is not
\* counted later.
C11_TimerResetOutsideZone ==
    [][(/\ frame_dt' > 0
        /\ anim.g_current_pos = Standing /\ anim'.g_current_pos = Standing
        /\ ~SeqIsPlaying(anim.g_active_sequence)
        /\ ~SeqIsPlaying(anim'.g_active_sequence))
         => (/\ ~(camera.pitch < CROUCH_DOWN_ANGLE) => stand'.g_time_in_crouch_zone = 0
             /\ ~(camera.pitch > TIPTOE_UP_ANGLE) => stand'.g_time_in_tiptoe_zone = 0
             /\ ~(camera.pitch > STAND_UP_ANGLE) => stand'.g_time_in_standup_zone = 0
             /\ ~(camera.pitch < STAND_DOWN_ANGLE) => stand'.g_time_in_standdown_zone = 0)]_vars

\* A playing sequence before and after a step: it is the same sequence with
\* delta more elapsed time and still short of its duration, or its elapsed
\* time has reached the duration in this frame and it is gone (reset, or
\* followed by a sequence started afresh).
RunsOn(seq, next, delta) ==
    \/ /\ seq.elapsed + delta < seq.duration
       /\ next = [seq EXCEPT !.elapsed = seq.elapsed + delta]
    \/ /\ delta > 0
       /\ seq.elapsed + delta >= seq.duration
       /\ (next = NullSeq \/ (next.playing /\ next.elapsed = 0))

\* The time a frame of length dt adds to the playing sequence of each controller.
MajorDelta(dt) == IF dt = 0 THEN 0 ELSE anim.last_simulation_time + dt

StanceDelta(dt) == IF dt = 0 THEN 0 ELSE Min(stand.last_simulation_time + dt, LagCap)

\* C12: a playing major or stance sequence is left alone by every step except
\* a frame, which adds its time to the elapsed time; the sequence is dropped
\* only in the frame in which the elapsed time reaches the duration, and
\* while a major sequence plays the current position changes only in that
\* frame.
C12_SequencesRunToCompletion ==
    [][/\ SeqIsPlaying(anim.g_active_sequence)
            => /\ RunsOn(anim.g_active_sequence, anim'.g_active_sequence, MajorDelta(frame_dt'))
               /\ anim'.g_current_pos # anim.g_current_pos
                     => (/\ frame_dt' > 0
                         /\ anim.g_active_sequence.elapsed + MajorDelta(frame_dt')
                               >= anim.g_active_sequence.duration)
       /\ SeqIsPlaying(stand.g_active_sequence)
            => RunsOn(stand.g_active_sequence, stand'.g_active_sequence, StanceDelta(frame_dt'))]_vars

\* C12 witness: a request arrived while a major sequence was part-way
\* through, and the sequence is still playing.
C12_Witness ==
    /\ requested # None
    /\ SeqIsPlaying(anim.g_active_sequence)
    /\ anim.g_active_sequence.elapsed > 0
    /\ anim.g_active_sequence.elapsed < anim.g_active_sequence.duration

\* The waypoints still ahead: the target of the playing leg or, during the
\* walk home, the destination the walk is for, and then the pending queue.
Remaining(a, st) ==
    (IF SeqIsPlaying(a.g_active_sequence) THEN <<a.g_active_sequence.to>>
     ELSE IF st.g_current_stance = St_Walking THEN <<st.g_final_destination>>
     ELSE <<>>) \o a.g_pending_moves

\* The waypoints ahead once the step's request, if OnRequestMove accepts it,
\* has planned its path.
Agenda ==
    Remaining(anim, stand)
       \o (IF requested' # None /\ ~RequestRefused(State) /\ anim.g_current_pos # requested'
           THEN PlanPath(anim.g_current_pos, requested') ELSE <<>>)

\* C13: with the camera API available, every step takes the waypoints ahead
\* in their order: it leaves them as they are, or the current position
\* becomes the k-th of them and exactly the first k are taken off; none is
\* dropped without the position taking it, none is left behind.
C13_WaypointsInOrder ==
    [][g_ctx.cameraAPI
         => \E k \in 0..Len(Agenda) :
               /\ Remaining(anim', stand') = SubSeq(Agenda, k + 1, Len(Agenda))
               /\ anim'.g_current_pos = IF k = 0 THEN anim.g_current_pos ELSE Agenda[k]]_vars


\* A major or a stance sequence is playing.
Playing ==
    SeqIsPlaying(anim.g_active_sequence) \/ SeqIsPlaying(stand.g_active_sequence)

\* The state one Update call leaves dt after the last one.
Tick(s, dt) == Update(Advance(s, dt))

\* C14: a notified settings change stays pending (the dirty flag stays set)
\* through every step that is not an Update call and through every Update
\* call that finds a major or a stance sequence playing, and such a call
\* leaves the controllers and the camera exactly as it would with no change
\* pending.  The first Update call that finds neither playing clears the flag
\* and, away from the driver seat with the camera available and no snap in
\* the same call, leaves the camera at the settings pose of the position.
C14_SettingsWaitForIdle ==
    [][anim.g_settings_dirty =>
         /\ frame_dt' = 0 => anim'.g_settings_dirty
         /\ (frame_dt' > 0 /\ Playing) =>
               LET clean == Tick([State EXCEPT !.anim.g_settings_dirty = FALSE], frame_dt')
               IN /\ anim'.g_settings_dirty
                  /\ anim' = [clean.anim EXCEPT !.g_settings_dirty = TRUE]
                  /\ stand' = clean.stand
                  /\ camera' = clean.camera
         /\ (frame_dt' > 0 /\ ~Playing) =>
               /\ ~anim'.g_settings_dirty
               /\ (/\ g_ctx.cameraAPI
                   /\ anim.g_current_pos # Driver
                   /\ \A i \in DOMAIN legs' : legs'[i].animated)
                     => camera' = SettingsPose(anim.g_current_pos)]_vars

\* A frame has just run with a settings change pending and a sequence under
\* way: the change is still pending.
C14_Witness ==
    /\ frame_dt > 0
    /\ anim.g_settings_dirty
    /\ g_ctx.cameraAPI
    /\ Playing
    /\ anim.g_active_sequence.elapsed + stand.g_active_sequence.elapsed > 0

\* C15: a call of OnRequestMove made while a major sequence is playing, while
\* a stance sequence is playing or while the pending queue is not empty
\* changes nothing: current position, target, pending queue, stance, both
\* sequences, the walk key and the camera pose stay as they were, and nothing
\* is handed to MoveTo, so that no leg is started, snapped or turned down.
C15_RequestWhileBusyChangesNothing ==
    [][(requested' # None /\ (Playing \/ anim.g_pending_moves # <<>>))
         => (/\ anim' = anim
             /\ stand' = stand
             /\ camera' = camera
             /\ g_is_walk_key_down' = g_is_walk_key_down
             /\ g_ctx' = g_ctx
             /\ legs' = <<>>
             /\ refused' = <<>>)]_vars

\* The last step called OnRequestMove while a stance sequence was playing with
\* nothing queued, and the sequence is still where it was.
C15_Witness ==
    /\ requested # None
    /\ SeqIsPlaying(stand.g_active_sequence)
    /\ stand.g_active_sequence.elapsed > 0
    /\ anim.g_pending_moves = <<>>
    /\ ~SeqIsPlaying(anim.g_active_sequence)
    /\ legs = <<>>

\* C16: a call OnRequestMove(X) made while the current position is X changes
\* nothing: no sequence starts, the pending queue, the current position, the
\* target, the stance and the camera pose stay as they were, and nothing is
\* handed to MoveTo.
C16_RequestForCurrentPositionChangesNothing ==
    [][(requested' # None /\ requested' = anim.g_current_pos)
         => (/\ anim' = anim
             /\ stand' = stand
             /\ camera' = camera
             /\ g_is_walk_key_down' = g_is_walk_key_down
             /\ legs' = <<>>
             /\ refused' = <<>>)]_vars

\* The last step asked for the passenger seat while the player sat there with
\* nothing playing and nothing queued, and nothing was started.
C16_Witness ==
    /\ requested = Passenger
    /\ anim.g_current_pos = Passenger
    /\ ~Playing
    /\ anim.g_pending_moves = <<>>
    /\ legs = <<>>
    /\ refused = <<>>

\* The step now taken calls OnRequestMove and the call goes on to plan a path.
RequestAccepted ==
    requested' # None /\ ~RequestRefused(State) /\ anim.g_current_pos # requested'

\* The waypoint list the step built, read back from what became of it: its
\* first waypoint was handed to MoveTo, which started or snapped a leg to it,
\* turned it down, queued it again behind the rest (stance gating) or kept it
\* as the destination of the walk home; the rest is the pending queue.
BuiltPath ==
    IF legs' # <<>> THEN <<legs'[1].to>> \o anim'.g_pending_moves
    ELSE IF refused' # <<>> THEN <<refused'[1].target>> \o anim'.g_pending_moves
    ELSE IF anim'.g_pending_moves # <<>> THEN anim'.g_pending_moves
    ELSE <<stand'.g_final_destination>>

\* C17: the waypoint list an accepted OnRequestMove builds is a function of
\* the pair (current position, destination) alone, whatever the stance, the
\* camera pose, the settings and the earlier requests are, and from SofaLie
\* to Driver it is SofaSit1, Standing, Driver.
C17_PathDependsOnPairOnly ==
    [][RequestAccepted
         => /\ BuiltPath = PlanPath(anim.g_current_pos, requested')
            /\ (anim.g_current_pos = SofaLie /\ requested' = Driver)
                  => BuiltPath = <<SofaSit1, Standing, Driver>>]_vars

\* The last step asked for the driver seat from SofaLie: the leg to SofaSit1
\* is under way and Standing, Driver are queued.
C17_Witness ==
    /\ requested = Driver
    /\ legs = <<[from |-> SofaLie, to |-> SofaSit1, animated |-> TRUE]>>
    /\ anim.g_pending_moves = <<Standing, Driver>>

\* C18: one Update call starts or snaps at most one leg and takes at most one
\* waypoint off the pending queue.
C18_OneLegPerUpdate ==
    [][frame_dt' > 0
         => /\ Len(legs') <= 1
            /\ Len(anim'.g_pending_moves) + 1 >= Len(anim.g_pending_moves)]_vars

\* The last Update call started one leg and left a further waypoint queued.
C18_Witness ==
    /\ frame_dt > 0
    /\ Len(legs) = 1
    /\ anim.g_pending_moves # <<>>

\* The step now taken is the Update call in which the playing major sequence
\* reaches its duration.
MajorFinishes ==
    /\ frame_dt' > 0
    /\ SeqIsPlaying(anim.g_active_sequence)
    /\ anim.g_active_sequence.elapsed + MajorDelta(frame_dt')
          >= anim.g_active_sequence.duration

\* The position the step has before it hands anything to MoveTo.
Arrived == IF MajorFinishes THEN anim.g_target_pos ELSE anim.g_current_pos

\* C19: the current position is changed by two things only.  The Update call
\* in which the major sequence finishes sets it to the target recorded when
\* the sequence was started, which is the sequence's destination and differs
\* from the position the leg left; a MoveTo snap sets it to the snap's target,
\* and a snap is made only for a pair with no graph edge.  Every other step,
\* the start of an animated leg included, leaves it alone.
C19_PositionChangesOncePerLeg ==
    [][/\ anim'.g_current_pos =
             IF legs' # <<>> /\ ~legs'[1].animated THEN legs'[1].to ELSE Arrived
       /\ \A i \in DOMAIN legs' :
             /\ i = 1
             /\ legs'[i].from = Arrived
             /\ legs'[i].to # Arrived
             /\ legs'[i].animated <=> <<legs'[i].from, legs'[i].to>> \in Graph
       /\ SeqIsPlaying(anim.g_active_sequence)
             => /\ anim.g_target_pos = anim.g_active_sequence.to
                /\ anim.g_target_pos # anim.g_current_pos]_vars

\* The player sits in the passenger seat, which only an animated leg reaches:
\* the last Update call found the position at the target of the finished leg.
C19_Witness ==
    /\ frame_dt > 0
    /\ anim.g_current_pos = Passenger
    /\ anim.g_target_pos = Passenger
    /\ ~Playing
    /\ legs = <<>>

\* The stance controller is walking home on behalf of t.
WalkFor(t) ==
    /\ anim.g_current_pos = Standing
    /\ stand.g_current_stance = St_Walking
    /\ stand.g_final_destination = t

\* C20: once the walk home on behalf of a destination is under way, every
\* step keeps it under way or ends it in the sit-down leg: the stance is reset
\* to Standing and the leg Standing to the remembered destination starts, or
\* the stance and the destination stay, the camera gets no farther from home,
\* and an Update call that finds no walk step playing finds the camera more
\* than one step from home and starts one walk step that ends nearer to home.
C20_WalkHomeEndsInLeg ==
    [][\A t \in SeatOrFirstSofa :
          (g_ctx.cameraAPI /\ WalkFor(t))
            => \/ /\ Started(t)'
                  /\ stand'.g_current_stance = St_Standing
               \/ /\ WalkFor(t)'
                  /\ Abs(camera'.z) <= Abs(camera.z)
                  /\ (frame_dt' > 0 /\ ~SeqIsPlaying(stand.g_active_sequence))
                        => /\ Abs(camera.z) > STEP_AMOUNT
                           /\ SeqIsPlaying(stand'.g_active_sequence)
                           /\ stand'.g_active_sequence.kind \in {"first_step", "walk_step"}
                           /\ Abs(stand'.g_active_sequence.final.z) < Abs(camera.z)]_vars

\* The Z authored for a target: the settings pose, or for Driver the pose
\* cached when the seat was left.
AuthoredZ(target) ==
    IF target = Driver THEN anim.g_cached_driver_state.z ELSE SettingsPose(target).z

\* The step now taken hands target to MoveTo at Standing in stance Standing
\* with nothing playing, by an accepted request or by the pop of the waiting
\* waypoint, and MoveTo reaches CanSitDown: the target is SofaSit1, or a seat
\* with the camera at a Z that is not negative.
AsksCanSitDown(target) ==
    /\ g_ctx.cameraAPI
    /\ anim.g_current_pos = Standing
    /\ stand.g_current_stance = St_Standing
    /\ \/ requested' = target /\ ~RequestRefused(State)
       \/ frame_dt' > 0 /\ Waiting(target)
    /\ target = SofaSit1 \/ camera.z >= 0

LeavesDriver ==
    \E i \in DOMAIN legs' : legs'[i].from = Driver /\ legs'[i].animated

\* C22: the pose read from the device when Driver is left is cached, the
\* cache is not touched until Driver is left again, and the Update call in
\* which a leg back to Driver (from Passenger or from Standing) finishes with
\* nothing further queued leaves the device at the cached pose on every
\* channel: x, y, z, yaw, pitch.
C22_ReturnRestoresDriverPose ==
    [][/\ LeavesDriver
             => anim'.g_cached_driver_state = (IF MajorFinishes THEN camera' ELSE camera)
       /\ ~LeavesDriver => anim'.g_cached_driver_state = anim.g_cached_driver_state
       /\ (MajorFinishes /\ anim.g_target_pos = Driver /\ anim.g_pending_moves = <<>>)
             => camera' = anim.g_cached_driver_state]_vars

\* The Driver-to-Passenger sequence is playing.
DriverToPassengerPlays ==
    /\ SeqIsPlaying(anim.g_active_sequence)
    /\ anim.g_current_pos = Driver
    /\ anim.g_target_pos = Passenger

\* C23: a request for the passenger seat made idle at Driver (the keybind
\* handler found the truck stationary with the parking brake on) queues
\* nothing behind its single leg and starts the Driver-to-Passenger sequence
\* with its configured duration; the position stays Driver while the deltas
\* of the Update calls sum to less than that duration, and the Update call
\* that brings the sum to the duration makes the position Passenger and
\* leaves the device at the passenger-seat settings pose.
C23_DriverToPassenger ==
    [][/\ (/\ requested' = Passenger
           /\ anim.g_current_pos = Driver
           /\ ~RequestRefused(State)
           /\ g_ctx.cameraAPI)
             => /\ safety' = "held"
                /\ legs' = <<[from |-> Driver, to |-> Passenger, animated |-> TRUE]>>
                /\ anim'.g_pending_moves = <<>>
                /\ DriverToPassengerPlays'
                /\ anim'.g_active_sequence.duration = DRIVER_TO_PASSENGER_MS * 1000
                /\ anim'.g_active_sequence.elapsed = 0
       /\ (DriverToPassengerPlays /\ frame_dt' > 0 /\ g_ctx.cameraAPI)
             => IF MajorFinishes
                THEN /\ anim'.g_current_pos = Passenger
                     /\ camera' = SettingsPose(Passenger)
                     /\ ~Playing'
                ELSE /\ DriverToPassengerPlays'
                     /\ anim'.g_active_sequence.elapsed
                           = anim.g_active_sequence.elapsed + MajorDelta(frame_dt')]_vars

\* The player has arrived in the passenger seat: the last Update call found
\* the position Passenger, the device at the settings pose, nothing playing
\* and nothing queued.
C23_Witness ==
    /\ frame_dt > 0
    /\ anim.g_current_pos = Passenger
    /\ camera = SettingsPose(Passenger)
    /\ anim.g_pending_moves = <<>>
    /\ ~Playing
    /\ stand.g_current_stance = St_Standing

\* C24: the first-step-taken flag is reset whenever the walk key is released,
\* so that the key never comes down again with the flag still set: the step
\* that presses the key leaves the flag reset, and the next walk step the key
\* starts is the dynamic first-step variant.
C24_ReleaseResetsFirstStep ==
    [][(~g_is_walk_key_down /\ g_is_walk_key_down')
         => ~stand'.g_has_taken_first_step]_vars

\* The direction the walk key walks in: forward while the yaw is within a
\* quarter turn of straight ahead.
KeyWalksForward == camera.yaw >= -M_PI_2 /\ camera.yaw <= M_PI_2

\* An Update call is about to find the player at Standing in stance Standing
\* with nothing playing or queued, the walk key down and a step from the
\* camera Z staying inside the walk zone.
KeyStepDue ==
    /\ g_ctx.cameraAPI
    /\ anim.g_current_pos = Standing
    /\ stand.g_current_stance = St_Standing
    /\ ~Playing
    /\ anim.g_pending_moves = <<>>
    /\ g_is_walk_key_down
    /\ InWalkZone(StepTargetZ(camera, KeyWalksForward))

WalkZone == MIN_Z .. MAX_Z

\* A walk step sequence: the dynamic first step or the plain step.
IsWalkStep(seq) == SeqIsPlaying(seq) /\ seq.kind \in {"first_step", "walk_step"}

\* C26: a walk step that a step of the program starts, by the walk key or by
\* the walk home, ends one step amount from the Z it starts at and inside the
\* walk zone [MIN_Z, MAX_Z]; the Update call in which the step finishes
\* leaves the camera at that Z; and an Update call that finds the walk key
\* down with the candidate Z outside the zone, or the walk home with its
\* candidate outside the zone, starts no step.
C26_StepsStayInWalkZone ==
    [][/\ (IsWalkStep(stand'.g_active_sequence) /\ stand'.g_active_sequence.elapsed = 0)
             => /\ stand'.g_active_sequence.final.z \in WalkZone
                /\ Abs(stand'.g_active_sequence.final.z
                       - stand'.g_active_sequence.init.z) = STEP_AMOUNT
                /\ stand'.g_active_sequence.init = camera
       /\ (IsWalkStep(stand.g_active_sequence) /\ ~IsWalkStep(stand'.g_active_sequence)
           /\ g_ctx.cameraAPI)
             => /\ frame_dt' > 0
                /\ camera'.z = stand.g_active_sequence.final.z
                /\ camera'.z \in WalkZone
       /\ (/\ frame_dt' > 0
           /\ anim.g_current_pos = Standing
           /\ ~Playing
           /\ anim.g_pending_moves = <<>>
           /\ \/ /\ stand.g_current_stance = St_Standing
                 /\ g_is_walk_key_down
                 /\ StepTargetZ(camera, KeyWalksForward) \notin WalkZone
              \/ /\ stand.g_current_stance = St_Walking
                 /\ Abs(camera.z) > STEP_AMOUNT
                 /\ StepTargetZ(camera, camera.z > 0) \notin WalkZone)
             => ~IsWalkStep(stand'.g_active_sequence)]_vars

\* The player has walked away from the Standing pose to the edge of the walk
\* zone, and the Update call that found the walk key down there has started
\* no further step.
C26_Witness ==
    /\ frame_dt > 0
    /\ g_is_walk_key_down
    /\ anim.g_current_pos = Standing
    /\ stand.g_current_stance = St_Standing
    /\ ~Playing
    /\ camera.z # SettingsPose(Standing).z
    /\ StepTargetZ(camera, KeyWalksForward) \notin WalkZone
    /\ camera.z \in WalkZone

\* C27: a step in which the current position becomes Standing, by a leg that
\* finishes or by a snap, leaves the stance at base Standing and the stance
\* controller without a sequence.
C27_StandingEntersBaseStance ==
    [][(anim.g_current_pos # Standing /\ anim'.g_current_pos = Standing)
         => /\ stand'.g_current_stance = St_Standing
            /\ stand'.g_active_sequence = NullSeq]_vars

\* The Update call that has just run finished a leg into Standing: the leg
\* was played by this call and the stance controller was not run.
C27_Witness ==
    /\ frame_dt > 0
    /\ anim.g_current_pos = Standing
    /\ anim.g_target_pos = Standing
    /\ ~Playing
    /\ anim.last_simulation_time = 0
    /\ stand.last_simulation_time > 0
    /\ stand.g_current_stance = St_Standing

\* C28: once a started sequence has been updated with deltas that add up to
\* its duration or more, it is no longer playing, and with a camera API the
\* device holds, in every channel, the value the sequence ends on: the last
\* keyframe of the channel's track, or the start pose's component for a
\* channel without keyframes.
C28_SequenceCompletes ==
    LET seq == anim.g_active_sequence IN
    anim.last_simulation_time >= seq.duration
       => /\ ~SeqIsPlaying(seq)
          /\ seq.elapsed = seq.duration
          /\ g_ctx.cameraAPI
                => \A c \in Channels :
                      /\ camera[c] = seq.final[c]
                      /\ camera[c] \in {LastKeyframes[c], seq.init[c]}

\* A sequence has been played to its end by more than one call, the last of
\* which finished it, with a camera API: the Z channel, which has keyframes, is on its last keyframe and
\* the yaw channel, which has none, is where it started.
C28_Witness ==
    LET seq == anim.g_active_sequence IN
    /\ seq.kind = "tracks"
    /\ anim.last_simulation_time >= seq.duration
    /\ anim.last_simulation_time - frame_dt > 0
    /\ anim.last_simulation_time - frame_dt < seq.duration
    /\ g_ctx.cameraAPI
    /\ camera.z = LastKeyframes.z
    /\ camera.z # seq.init.z
    /\ camera.yaw = seq.init.yaw
    /\ camera.yaw # LastKeyframes.yaw

\* A path is in progress: something is playing, a leg is queued or a walk
\* home is under way.
PathInProgress ==
    \/ Playing
    \/ anim.g_pending_moves # <<>>
    \/ stand.g_current_stance = St_Walking

\* Where the path in progress ends: the last queued waypoint, else the target
\* of the leg that is playing, else the destination the walk home remembers.
Goal ==
    IF anim.g_pending_moves # <<>>
    THEN anim.g_pending_moves[Len(anim.g_pending_moves)]
    ELSE IF SeqIsPlaying(anim.g_active_sequence) THEN anim.g_target_pos
    ELSE IF stand.g_current_stance = St_Walking THEN stand.g_final_destination
    ELSE anim.g_current_pos

\* The Update call now made carries the path on: the playing sequence moves
\* on or ends, or with nothing playing a waypoint leaves the queue or a
\* sequence starts.
PathMovesOn ==
    IF SeqIsPlaying(anim.g_active_sequence)
    THEN \/ /\ SeqIsPlaying(anim'.g_active_sequence)
            /\ anim'.g_active_sequence.elapsed > anim.g_active_sequence.elapsed
         \/ anim'.g_current_pos = anim.g_target_pos
         \/ Len(anim'.g_pending_moves) < Len(anim.g_pending_moves)
    ELSE IF SeqIsPlaying(stand.g_active_sequence)
    THEN \/ /\ SeqIsPlaying(stand'.g_active_sequence)
            /\ stand'.g_active_sequence.elapsed > stand.g_active_sequence.elapsed
         \/ stand'.g_active_sequence = NullSeq
    ELSE \/ Len(anim'.g_pending_moves) < Len(anim.g_pending_moves)
         \/ SeqIsPlaying(anim'.g_active_sequence)
         \/ SeqIsPlaying(stand'.g_active_sequence)

\* C29: with a camera API, a request accepted with no path in progress makes
\* its destination the end of the path; no step changes that end while the
\* path is in progress; and every Update call made while the path is in
\* progress carries it on, so that no queue or walk home is left that no
\* Update call can take up, and the path is over only at its end.
C29_RequestReachesDestination ==
    [][g_ctx.cameraAPI
         => /\ (RequestAccepted /\ ~PathInProgress) => Goal' = requested'
            /\ PathInProgress => Goal' = Goal
            /\ (frame_dt' > 0 /\ PathInProgress) => PathMovesOn]_vars

\* C30: every leg MoveTo executes, whichever key asked for it and whichever
\* sofa positions are enabled, goes along a registered edge of the graph and
\* is animated: the snap branch is never taken.
C30_EveryLegHasAnEdge ==
    [][\A i \in DOMAIN legs' :
          /\ <<legs'[i].from, legs'[i].to>> \in Graph
          /\ legs'[i].animated]_vars

\* The step now taken is a request that MoveTo takes into its stance-gating
\* branch: at Standing, for a seat or SofaSit1, with a stance other than
\* Standing.
ReachesStanceGating ==
    /\ RequestAccepted
    /\ g_ctx.cameraAPI
    /\ anim.g_current_pos = Standing
    /\ requested' \in SeatOrFirstSofa
    /\ stand.g_current_stance # St_Standing

\* C31: a MoveTo that reaches the stance-gating branch with a stance other
\* than Standing finds Crouching or Tiptoes, never InTransition or
\* WalkingToFinalDestination, so the target it queues comes with a stand-up
\* or stand-down that starts in the same step.
C31_GatingTriggersStanceChange ==
    [][ReachesStanceGating
         => /\ stand.g_current_stance \in {St_Crouching, St_Tiptoes}
            /\ anim'.g_pending_moves = <<requested'>>
            /\ SeqIsPlaying(stand'.g_active_sequence)
            /\ stand'.g_active_sequence.kind \in {"stand_up", "stand_down"}
            /\ stand'.g_current_stance = St_InTransition
            /\ stand'.g_transition_to_stance = St_Standing]_vars

\* C32: while the current position is not Standing the stance is base
\* Standing: no other stance survives leaving the Standing position.
C32_StanceStandingAwayFromStanding ==
    anim.g_current_pos # Standing => stand.g_current_stance = St_Standing

\* C33: the Update call in which a major leg finishes leaves the device on
\* the leg's target pose, the settings pose of the destination or the cached
\* driver pose, in all five channels, whether or not further legs are queued
\* (a snap that the same call goes on to make aside).
C33_LegEndsOnTargetPose ==
    [][(MajorFinishes /\ g_ctx.cameraAPI)
         => /\ anim.g_active_sequence.final
                  = GetTargetTransformForPosition(State, anim.g_target_pos)
            /\ (legs' = <<>> \/ legs'[1].animated)
                  => camera' = GetTargetTransformForPosition(State, anim.g_target_pos)]_vars

\* The controller rests at Standing: no major-transition sequence and no
\* stance sequence is playing.
RestingAtStanding ==
    /\ anim.g_current_pos = Standing
    /\ ~SeqIsPlaying(anim.g_active_sequence)
    /\ ~SeqIsPlaying(stand.g_active_sequence)

\* C34: while at Standing with no sequence playing, the camera height is the
\* standing base height when the stance is Standing, the base height minus the
\* crouch depth when it is Crouching and the base height plus the tiptoe
\* height when it is Tiptoes, also after a settings change has been applied
\* and after the stand-up or stand-down that follows it.
C34_HeightMatchesStance ==
    (RestingAtStanding /\ g_ctx.cameraAPI)
      => /\ stand.g_current_stance = St_Standing
              => camera.y = SettingsPose(Standing).y
         /\ stand.g_current_stance = St_Crouching
              => camera.y = SettingsPose(Standing).y - CROUCH_DEPTH
         /\ stand.g_current_stance = St_Tiptoes
              => camera.y = SettingsPose(Standing).y + TIPTOE_HEIGHT

\* C35: after every controller operation (Update, MoveTo through a keybind
\* request or the queue, OnRequestMove) the logical position last given to
\* the camera hook manager is the controller's current position.
C35_HookKnowsCurrentPosition ==
    g_current_camera_pos = anim.g_current_pos

\* A leg has just finished away from the driver seat, or a snap has moved the
\* controller: the hook manager has been told a new position.
C35_HookToldNewPosition ==
    /\ g_current_camera_pos # Driver
    /\ g_current_camera_pos = anim.g_current_pos

StanceChangeKinds == {"crouch_down", "tiptoe_up", "stand_up", "stand_down"}

StanceChangePlaying(st) ==
    SeqIsPlaying(st.g_active_sequence) /\ st.g_active_sequence.kind \in StanceChangeKinds

\* C36: the stance is InTransition exactly while a stance-change sequence
\* (crouch-down, tiptoe-up, stand-up, stand-down) is playing; while it plays
\* the remembered target stance is kept, and the stance leaves InTransition
\* only in an Update tick, the one in which that sequence finishes, and
\* then becomes the remembered target stance.
C36_InTransitionWhileStanceChangePlays ==
    [][/\ (stand.g_current_stance = St_InTransition) <=> StanceChangePlaying(stand)
       /\ (stand'.g_current_stance = St_InTransition) <=> StanceChangePlaying(stand')
       /\ (stand.g_current_stance = St_InTransition /\ StanceChangePlaying(stand'))
             => /\ stand'.g_transition_to_stance = stand.g_transition_to_stance
                /\ stand'.g_active_sequence.kind = stand.g_active_sequence.kind
       /\ (stand.g_current_stance = St_InTransition /\ ~StanceChangePlaying(stand'))
             => /\ frame_dt' > 0
                /\ stand.g_active_sequence.elapsed + stand.last_simulation_time + frame_dt'
                      >= stand.g_active_sequence.duration
                /\ stand'.g_current_stance = stand.g_transition_to_stance]_vars

\* A stance-change sequence has just finished and its target stance has been
\* taken on.
C36_StanceCommitted ==
    /\ frame_dt > 0
    /\ stand.g_current_stance \in {St_Crouching, St_Tiptoes}
    /\ stand.g_current_stance = stand.g_transition_to_stance
    /\ ~SeqIsPlaying(stand.g_active_sequence)
    /\ crouch_zone_time = 0
    /\ camera.pitch = 0

\* ------------------------------------------------------------------------
\* The gaze direction
\* ------------------------------------------------------------------------
GazeDirections == {"Forward", "Left", "Right", "Backward"}

\* Variant: the sector to the right ends at the side instead of behind.
GetGazeDirection_NarrowRight(yaw_radians) ==
    LET quarter_pi == M_PI \div 4
        three_quarters_pi == (3 * M_PI) \div 4
    IN IF yaw_radians >= -quarter_pi /\ yaw_radians <= quarter_pi THEN "Forward"
       ELSE IF yaw_radians > quarter_pi /\ yaw_radians <= three_quarters_pi THEN "Left"
       ELSE IF yaw_radians < -quarter_pi /\ yaw_radians >= -M_PI_2 THEN "Right"
       ELSE "Backward"

GetGazeDirection(yaw_radians) ==
    LET quarter_pi == M_PI \div 4
        three_quarters_pi == (3 * M_PI) \div 4
    IN IF yaw_radians >= -quarter_pi /\ yaw_radians <= quarter_pi THEN "Forward"
       ELSE IF yaw_radians > quarter_pi /\ yaw_radians <= three_quarters_pi THEN "Left"
       ELSE IF yaw_radians < -quarter_pi /\ yaw_radians >= -three_quarters_pi THEN "Right"
       ELSE "Backward"

\* The player stands at Standing and looks in any direction of the full turn;
\* the gaze has not been asked for yet.
GazeInit ==
    /\ g_ctx = [coreAPI |-> TRUE, cameraAPI |-> TRUE,
                sofa_enabled |-> [p \in SofaPositions |-> TRUE]]
    /\ g_is_walk_key_down = FALSE
    /\ anim = [g_active_sequence |-> NullSeq, g_current_pos |-> Standing,
               g_target_pos |-> Standing, g_cached_driver_state |-> DriverSeatPose,
               last_simulation_time |-> 0, g_pending_moves |-> <<>>,
               g_settings_dirty |-> FALSE]
    /\ stand = [g_current_stance |-> St_Standing, g_final_destination |-> Driver,
                g_transition_to_stance |-> St_Standing, g_active_sequence |-> NullSeq,
                last_simulation_time |-> LagCap, g_has_taken_first_step |-> FALSE,
                g_time_in_crouch_zone |-> 0, g_time_in_tiptoe_zone |-> 0,
                g_time_in_standup_zone |-> 0, g_time_in_standdown_zone |-> 0]
    /\ \E yaw \in -M_PI .. M_PI : camera = [SettingsPose(Standing) EXCEPT !.yaw = yaw]
    /\ g_current_camera_pos = Standing
    /\ gaze = NoGaze
    /\ track = NewTrack
    /\ frame_dt = 0
    /\ safety = "none"
    /\ requested = None
    /\ legs = <<>>
    /\ refused = <<>>
    /\ unguarded = FALSE
    /\ null_deref = FALSE
    /\ crouch_zone_time = 0

\* StandingAnimController::Update asks for the gaze before it builds a stance
\* sequence.
AskGazeDirection ==
    /\ gaze = NoGaze
    /\ gaze' = GetGazeDirection(camera.yaw)
    /\ UNCHANGED <<g_ctx, g_is_walk_key_down, anim, stand, camera, g_current_camera_pos,
                   track, frame_dt, safety, requested, legs, refused, unguarded,
                   null_deref, crouch_zone_time>>

GazeSpec == GazeInit /\ [][AskGazeDirection]_vars

\* The yaw is within 45 degrees (a quarter of pi) of the centre.
Within45(yaw, centre) == 4 * Abs(yaw - centre) <= M_PI

MirrorGaze(g) ==
    CASE g = "Left" -> "Right" [] g = "Right" -> "Left" [] OTHER -> g

\* C37: GetGazeDirection gives every yaw in [-pi, pi] exactly one of Forward,
\* Left, Right, Backward: Forward within 45 degrees of 0, Left within 45
\* degrees of +90, Right within 45 degrees of -90, Backward otherwise; the
\* sectors mirror each other, a yaw and its negative get mirrored directions.
C37_GazeSectors ==
    gaze # NoGaze
      => /\ gaze \in GazeDirections
         /\ (gaze = "Forward") <=> Within45(camera.yaw, 0)
         /\ (gaze = "Left") <=> (Within45(camera.yaw, M_PI_2) /\ ~Within45(camera.yaw, 0))
         /\ (gaze = "Right") <=> (Within45(camera.yaw, -M_PI_2) /\ ~Within45(camera.yaw, 0))
         /\ (gaze = "Backward")
               <=> ~(\E centre \in {-M_PI_2, 0, M_PI_2} : Within45(camera.yaw, centre))
         /\ GetGazeDirection(-camera.yaw) = MirrorGaze(gaze)

\* The gaze has been asked for a yaw on the edge of the sector behind.
C37_GazeAtSectorEdge ==
    /\ gaze = "Right"
    /\ GetGazeDirection(camera.yaw - 1) = "Backward"

\* ------------------------------------------------------------------------
\* A track on its own
\* ------------------------------------------------------------------------
\* Progress and eased progress are in hundredths (0 .. 100 for 0.0 .. 1.0).
MaxKeyframes == 3

KeyProgresses == {20, 50, 80}

KeyValues == {0, 10}

Easings == {"linear", "easeInQuint"}

EvalProgresses == {0, 20, 35, 50, 65, 80, 100}

Keyframe(prog, val, easing) ==
    [progress |-> prog, value |-> val, easing_function |-> easing]

linear(t) == t

\* t * t * t * t * t, brought back to hundredths after every product
easeInQuint(t) == (((((((t * t) \div 100) * t) \div 100) * t) \div 100) * t) \div 100

Ease(easing, t) == IF easing = "linear" THEN linear(t) ELSE easeInQuint(t)

\* std::sort with the comparator a.progress < b.progress: the list in any
\* order in which no keyframe comes after one it compares less than.  The
\* order of keyframes of equal progress is left to the library.
StdSort(kfs) ==
    LET n == Len(kfs)
        ascending(pi) == \A i, j \in 1 .. n :
                            i < j => ~(kfs[pi[j]].progress < kfs[pi[i]].progress)
    IN {[i \in 1 .. n |-> kfs[pi[i]]] : pi \in {q \in Permutations(1 .. n) : ascending(q)}}

\* Variant: the keyframe is appended and the list is left as it is.
AddKeyframe_Unsorted(m_keyframes, keyframe) == {Append(m_keyframes, keyframe)}

\* The lists AddKeyframe can leave in m_keyframes.
AddKeyframe(m_keyframes, keyframe) == StdSort(Append(m_keyframes, keyframe))

\* std::upper_bound: the first keyframe whose progress is above p.
UpperBound(kfs, p) ==
    CHOOSE i \in 1 .. Len(kfs) :
        /\ p < kfs[i].progress
        /\ \A j \in 1 .. i - 1 : ~(p < kfs[j].progress)

\* Variant: the width is taken from the end keyframe back to the start.
SegmentWidth_Reversed(start_kf, end_kf) == start_kf.progress - end_kf.progress

\* duration_between_keyframes
SegmentWidth(start_kf, end_kf) == end_kf.progress - start_kf.progress

\* Variant: the last keyframe's value at every progress.
Evaluate_LastValue(m_keyframes, current_progress, default_value) ==
    [progress |-> current_progress,
     value |-> IF m_keyframes = <<>> THEN default_value
               ELSE m_keyframes[Len(m_keyframes)].value,
     divided |-> FALSE, width |-> 0]

\* The value Evaluate returns, whether it divided, and by what width.
Evaluate(m_keyframes, current_progress, default_value) ==
    LET plain(v) == [progress |-> current_progress, value |-> v,
                     divided |-> FALSE, width |-> 0]
        front == m_keyframes[1]
        back == m_keyframes[Len(m_keyframes)]
    IN IF m_keyframes = <<>> THEN plain(default_value)
       ELSE IF current_progress <= front.progress THEN plain(front.value)
       ELSE IF current_progress >= back.progress THEN plain(back.value)
       ELSE LET it_end == UpperBound(m_keyframes, current_progress)
                start_kf == m_keyframes[it_end - 1]
                end_kf == m_keyframes[it_end]
                duration_between_keyframes == SegmentWidth(start_kf, end_kf)
            IN IF duration_between_keyframes = 0 THEN plain(start_kf.value)
               ELSE LET local_progress == ((current_progress - start_kf.progress) * 100)
                                              \div duration_between_keyframes
                        eased_progress == Ease(end_kf.easing_function, local_progress)
                    IN [progress |-> current_progress,
                        value |-> Lerp(start_kf.value, end_kf.value, eased_progress),
                        divided |-> TRUE,
                        width |-> duration_between_keyframes]

\* A factory adds a keyframe to the track.
TrackAddKeyframe ==
    /\ Len(track.m_keyframes) < MaxKeyframes
    /\ \E prog \in KeyProgresses, val \in KeyValues, easing \in Easings :
          \E sorted \in AddKeyframe(track.m_keyframes, Keyframe(prog, val, easing)) :
             track' = [m_keyframes |-> sorted,
                       added |-> Append(track.added, Keyframe(prog, val, easing)),
                       returned |-> <<>>]
    /\ UNCHANGED <<g_ctx, g_is_walk_key_down, anim, stand, camera, g_current_camera_pos,
                   gaze, frame_dt, safety, requested, legs, refused, unguarded,
                   null_deref, crouch_zone_time>>

\* AnimationSequence::Update evaluates the track; the default is the start
\* pose's component.
TrackEvaluate ==
    /\ \E p \in EvalProgresses :
          track' = [track EXCEPT !.returned =
                       <<Evaluate(track.m_keyframes, p, SettingsPose(Standing).x)>>]
    /\ UNCHANGED <<g_ctx, g_is_walk_key_down, anim, stand, camera, g_current_camera_pos,
                   gaze, frame_dt, safety, requested, legs, refused, unguarded,
                   null_deref, crouch_zone_time>>

TrackNext ==
    \/ TrackAddKeyframe
    \/ TrackEvaluate

TrackSpec == Init /\ [][TrackNext]_vars

\* The values of the keyframes of the track whose progress is prog.
ValuesAt(prog) ==
    {track.m_keyframes[i].value :
        i \in {j \in 1 .. Len(track.m_keyframes) : track.m_keyframes[j].progress = prog}}

MinProgress ==
    CHOOSE m \in KeyProgresses :
        /\ ValuesAt(m) # {}
        /\ \A i \in 1 .. Len(track.m_keyframes) : m <= track.m_keyframes[i].progress

MaxProgress ==
    CHOOSE m \in KeyProgresses :
        /\ ValuesAt(m) # {}
        /\ \A i \in 1 .. Len(track.m_keyframes) : m >= track.m_keyframes[i].progress

Evaluated == track.returned # <<>> /\ track.m_keyframes # <<>>

\* C38: for a track with at least one keyframe, whatever the values, easings
\* and order of the AddKeyframe calls, Evaluate(p) returns the value of a
\* keyframe of the lowest progress for every p at or below that progress and
\* the value of a keyframe of the highest progress for every p at or above it.
C38_BoundaryValues ==
    Evaluated
      => /\ track.returned[1].progress <= MinProgress
              => track.returned[1].value \in ValuesAt(MinProgress)
         /\ track.returned[1].progress >= MaxProgress
              => track.returned[1].value \in ValuesAt(MaxProgress)

\* Evaluate was called below the lowest progress of a track whose keyframe of
\* lowest progress was added last and differs in value from the others.
C38_BelowLateFirstKeyframe ==
    /\ Evaluated
    /\ Len(track.added) >= 3
    /\ track.returned[1].progress < MinProgress
    /\ track.added[Len(track.added)].progress = MinProgress
    /\ track.added[1].progress > MinProgress
    /\ track.added[1].value # track.added[Len(track.added)].value
    /\ track.added[Len(track.added)].easing_function = "easeInQuint"

\* C39: Evaluate never divides by zero: for any keyframe list, also one with
\* keyframes of equal progress, it either returns the value of a keyframe of
\* the track without dividing or divides by a segment width above zero.
C39_DivisorPositive ==
    Evaluated
      => IF track.returned[1].divided
         THEN track.returned[1].width > 0
         ELSE \E prog \in KeyProgresses : track.returned[1].value \in ValuesAt(prog)

\* Evaluate divided on a track that has two keyframes of equal progress.
C39_DividedBesideDuplicates ==
    /\ Evaluated
    /\ track.returned[1].divided
    /\ \E i \in 1 .. Len(track.m_keyframes) - 1 :
          /\ track.m_keyframes[i].progress = track.m_keyframes[i + 1].progress
          /\ track.m_keyframes[i].progress < track.returned[1].progress

\* C40: after any sequence of AddKeyframe calls, in any order of progress
\* values, the keyframe list of the track is sorted ascending by progress.
C40_KeyframesSorted ==
    \A i \in 1 .. Len(track.m_keyframes) - 1 :
        track.m_keyframes[i].progress <= track.m_keyframes[i + 1].progress

\* Three keyframes were added in descending order of progress.
C40_AddedDescending ==
    /\ Len(track.added) >= 3
    /\ track.added[1].progress > track.added[2].progress
    /\ track.added[2].progress > track.added[3].progress
    /\ Len(track.m_keyframes) = Len(track.added)

====
